---------------------------- MODULE Spec2Model ----------------------------
(***************************************************************************)
(* A model of the honeypot API: the scam classifier                        *)
(* (app/detector/classifier.py), the intelligence extractor                *)
(* (app/extractor/patterns.py), the GUVI session handler                   *)
(* (app/guvi_handler.py), the response orchestrator                        *)
(* (app/agent/orchestrator.py), the conversation memory (app/memory.py)    *)
(* and the /honeypot endpoint with its request translator (app/main.py).   *)
(*                                                                         *)
(* Texts.  A text is a sequence of tokens; the string it stands for is     *)
(* " ".join(tokens).  The empty token "" stands for the empty string, so   *)
(* <<>> and <<"">> are the text "", <<"", "">> is " ", and an empty token  *)
(* between two words is a second space between them.  The tokens are       *)
(* concrete strings (Vocab), and what the code's literals and regular      *)
(* expressions find inside one token is tabulated per token below (TokLen, *)
(* Sub, UrlTokens, ...).  What they find across tokens is computed by the  *)
(* operators from those tables: a literal with a space needs two adjacent  *)
(* tokens, \s* and \s+ step over empty tokens, and .*? orders the tokens.  *)
(* No token of Vocab holds two successive parts of one regular expression, *)
(* and no regular expression matches twice inside one token.               *)
(*                                                                         *)
(* Numbers.  The code's floats are modelled as exact rationals.  A         *)
(* classifier confidence is a pair <<num, den>>; an extractor confidence   *)
(* is an integer number of ConfUnit-ths.                                   *)
(***************************************************************************)
EXTENDS Integers, Sequences, FiniteSets, TLC

VARIABLES
    text,           \* the text handed to the classifier / extractor
    detection,      \* what detect_scam returned for text
    extraction,     \* what extract_all returned for text
    analyses,       \* the handler's view of the two: turn text -> what they return for it
    conversations,  \* EliteGuviHandler.conversations: session id -> state
    callbacks,      \* the final-callback POSTs made so far, in order
    response,       \* the outcome of the last process_guvi_request / honeypot call
    memory,         \* conversation_memory: the ConversationMemory of the service
    calls,          \* the calls of conversation_memory so far, in order
    agent,          \* a call of agent_orchestrator: its arguments and what it computed
    requests,       \* the requests in flight: request -> its position and locals
    heap,           \* the ConversationState objects created so far
    store           \* self.conversations as references: session id -> object of heap

\* the state outside the session handler: the service's memory, the orchestrator and
\* the requests in flight
serviceVars == <<memory, calls, agent, requests, heap, store>>

vars == <<text, detection, extraction, analyses, conversations, callbacks, response,
          memory, calls, agent, requests, heap, store>>

(***************************************************************************)
(* Bounds of the model.                                                    *)
(***************************************************************************)
\* a text is made of at most MaxPhrases phrases
MaxPhrases == 3

\* at most MaxMessages messages are stored over all sessions
MaxMessages == 4

\* a session of the scenario of consecutive scam turns receives at most MaxTurns turns
MaxTurns == 9

\* at most MaxCallbacks deliveries of a final result are attempted
MaxCallbacks == 2

\* conversation_memory holds at most max_size conversations, max_size in
\* 1..MaxConversations (1000 in the service)
MaxConversations == 2

\* at most MaxCalls calls of conversation_memory are made
MaxCalls == 4

\* the orchestrator is called for turn counts 0..MaxTurnCount
MaxTurnCount == 9

\* the threads that run process_guvi_request at once
MaxRequests == 2

(***************************************************************************)
(* Generic helpers.                                                        *)
(***************************************************************************)
Min(a, b) == IF a <= b THEN a ELSE b

Max(a, b) == IF a >= b THEN a ELSE b

\* f[x] for x in the domain of the sparse table f, else the default d
Lookup(f, x, d) == IF x \in DOMAIN f THEN f[x] ELSE d

RECURSIVE SumOver(_, _)
\* the sum of f[x] over the x in S
SumOver(f, S) ==
    IF S = {} THEN 0
    ELSE LET x == CHOOSE y \in S : TRUE IN f[x] + SumOver(f, S \ {x})

RECURSIVE Flatten(_)
\* the concatenation of a sequence of sequences
Flatten(ss) == IF ss = <<>> THEN <<>> ELSE Head(ss) \o Flatten(Tail(ss))

\* the value of a result variable before the call has returned
NoResult == [returned |-> FALSE]
(***************************************************************************)
(* The input space: phrases, as token sequences.                           *)
(***************************************************************************)
PBlank == <<"">>

PGreeting == <<"Hi,", "how", "are", "you", "doing", "today?">>

PLottery == <<"You", "have", "WON", "a", "lottery", "prize", "of", "5", "lakh!">>

PClaim == <<"Send", "your", "UPI", "ID", "to", "claim", "now!!!">>

PSuspend == <<"Your", "account", "123456789012", "will", "be", "suspended.">>

PPay == <<"Pay", "immediately", "via", "fraud@ybl.">>

PAccNo == <<"acc", "no:", "123456789012">>

PBankAcc == <<"bank", "account", "123456789012">>

PLink == <<"click", "link", "http://a.tk/[x]">>

PShort == <<"http://bit.ly/x">>

PAlarm == <<"URGENT", "NOW", "ALERT", "WARNING", "DANGER!!!!!">>

PCall == <<"call", "9123456780">>

PEmail == <<"email", "+a@b.com">>

PMoney == <<"send", "money", "to", "my", "bank", "account", "1234-5678-9012-3456">>

PDefault == <<"URGENT:", "Your", "account", "needs", "verification.", "This", "appears", "to", "be", "a", "scam", "attempt.">>

PFallback == <<"URGENT:", "Your", "bank", "account", "has", "been", "suspended!", "Immediate", "payment", "required", "to", "unblock.">>

PTestId == <<"test_2">>

PInvalid == <<"{invalid">>

PNone == <<"None">>

PSite == <<"http://a.tk/[x]">>

PClick == <<"click", "link">>

\* every token of the model
Vocab ==
    { "", "Hi,", "how", "are", "you", "doing", "today?", "You", "have", "WON", "a",
    "lottery", "prize", "of", "5", "lakh!", "Send", "your", "UPI", "ID", "to", "claim",
    "now!!!", "Your", "account", "123456789012", "will", "be", "suspended.", "Pay",
    "immediately", "via", "fraud@ybl.", "acc", "no:", "bank", "click", "link",
    "http://a.tk/[x]", "http://bit.ly/x", "URGENT", "NOW", "ALERT", "WARNING",
    "DANGER!!!!!", "call", "9123456780", "email", "+a@b.com", "send", "money", "my",
    "1234-5678-9012-3456", "URGENT:", "needs", "verification.", "This", "appears", "scam",
    "attempt.", "has", "been", "suspended!", "Immediate", "payment", "required",
    "unblock.", "test_2", "{invalid", "None" }

(***************************************************************************)
(* Lexical tables of the classifier: what its literals and regular         *)
(* expressions find in each token.                                         *)
(***************************************************************************)
\* category -> keyword -> weight, in tenths (classifier.py keyword_categories)
keyword_categories ==
  [
    financial_scam |->
      ( "won" :> 10 @@ "win" :> 10 @@ "winner" :> 10 @@ "lottery" :> 10 @@ "prize" :> 10 @@
        "reward" :> 9 @@ "jackpot" :> 10 @@ "bonanza" :> 10 @@ "fortune" :> 9 @@
        "million" :> 9 @@ "crore" :> 9 @@ "lakh" :> 8 @@ "cash" :> 8 @@ "money" :> 7 ),
    urgency_pressure |->
      ( "urgent" :> 9 @@ "immediate" :> 9 @@ "emergency" :> 9 @@ "now" :> 8 @@
        "today" :> 8 @@ "quick" :> 7 @@ "fast" :> 7 @@ "hurry" :> 9 @@ "limited" :> 8 @@
        "expire" :> 9 @@ "deadline" :> 8 @@ "last chance" :> 10 @@ "final" :> 8 @@
        "instant" :> 8 @@ "right now" :> 10 ),
    authority_impersonation |->
      ( "government" :> 9 @@ "official" :> 9 @@ "authority" :> 9 @@ "income tax" :> 10 @@
        "itr" :> 8 @@ "tax" :> 8 @@ "court" :> 9 @@ "police" :> 9 @@ "cid" :> 8 @@
        "cyber crime" :> 9 @@ "rbi" :> 10 @@ "sebi" :> 9 @@ "bank official" :> 10 @@
        "manager" :> 7 @@ "officer" :> 7 @@ "agent" :> 7 ),
    financial_threats |->
      ( "block" :> 10 @@ "suspend" :> 10 @@ "freeze" :> 9 @@ "close" :> 9 @@
        "deactivate" :> 8 @@ "terminate" :> 8 @@ "penalty" :> 9 @@ "fine" :> 9 @@
        "legal action" :> 10 @@ "arrest" :> 10 @@ "case" :> 8 @@ "complaint" :> 8 @@
        "fraud" :> 9 @@ "scam" :> 9 @@ "investigation" :> 8 ),
    payment_demand |->
      ( "send money" :> 10 @@ "transfer" :> 9 @@ "pay" :> 9 @@ "deposit" :> 9 @@
        "credit" :> 8 @@ "account" :> 8 @@ "bank" :> 8 @@ "upi" :> 10 @@
        "google pay" :> 9 @@ "phonepe" :> 9 @@ "paytm" :> 9 @@ "net banking" :> 8 @@
        "rtgs" :> 7 @@ "neft" :> 7 @@ "imps" :> 7 ),
    personal_info |->
      ( "password" :> 10 @@ "otp" :> 10 @@ "pin" :> 10 @@ "aadhaar" :> 10 @@ "pan" :> 10 @@
        "card" :> 9 @@ "cvv" :> 10 @@ "expiry" :> 8 @@ "signature" :> 7 @@ "photo" :> 6 @@
        "document" :> 7 @@ "kyc" :> 9 @@ "verification" :> 8 @@ "authenticate" :> 8 ),
    call_to_action |->
      ( "click" :> 9 @@ "visit" :> 8 @@ "open" :> 7 @@ "call" :> 7 @@ "message" :> 6 @@
        "whatsapp" :> 8 @@ "telegram" :> 7 @@ "download" :> 8 @@ "install" :> 7 @@
        "update" :> 7 @@ "verify" :> 8 @@ "confirm" :> 7 @@ "submit" :> 7 ),
    free_offers |->
      ( "free" :> 8 @@ "gift" :> 8 @@ "bonus" :> 8 @@ "offer" :> 7 @@ "discount" :> 6 @@
        "coupon" :> 6 @@ "voucher" :> 6 @@ "gift card" :> 8 @@ "shopping" :> 5 @@
        "amazon" :> 6 @@ "flipkart" :> 6 )
  ]

\* the literals that contain a space, as their two words
TwoWord ==
    "action required" :> <<"action", "required">> @@
    "bank official" :> <<"bank", "official">> @@ "cyber crime" :> <<"cyber", "crime">> @@
    "gift card" :> <<"gift", "card">> @@ "google pay" :> <<"google", "pay">> @@
    "income tax" :> <<"income", "tax">> @@ "last chance" :> <<"last", "chance">> @@
    "legal action" :> <<"legal", "action">> @@ "net banking" :> <<"net", "banking">> @@
    "number is" :> <<"number", "is">> @@ "right now" :> <<"right", "now">> @@
    "send money" :> <<"send", "money">>

\* len(token)
TokLen ==
    "" :> 0 @@ "Hi," :> 3 @@ "how" :> 3 @@ "are" :> 3 @@ "you" :> 3 @@ "doing" :> 5 @@
    "today?" :> 6 @@ "You" :> 3 @@ "have" :> 4 @@ "WON" :> 3 @@ "a" :> 1 @@
    "lottery" :> 7 @@ "prize" :> 5 @@ "of" :> 2 @@ "5" :> 1 @@ "lakh!" :> 5 @@
    "Send" :> 4 @@ "your" :> 4 @@ "UPI" :> 3 @@ "ID" :> 2 @@ "to" :> 2 @@ "claim" :> 5 @@
    "now!!!" :> 6 @@ "Your" :> 4 @@ "account" :> 7 @@ "123456789012" :> 12 @@
    "will" :> 4 @@ "be" :> 2 @@ "suspended." :> 10 @@ "Pay" :> 3 @@ "immediately" :> 11 @@
    "via" :> 3 @@ "fraud@ybl." :> 10 @@ "acc" :> 3 @@ "no:" :> 3 @@ "bank" :> 4 @@
    "click" :> 5 @@ "link" :> 4 @@ "http://a.tk/[x]" :> 15 @@ "http://bit.ly/x" :> 15 @@
    "URGENT" :> 6 @@ "NOW" :> 3 @@ "ALERT" :> 5 @@ "WARNING" :> 7 @@ "DANGER!!!!!" :> 11 @@
    "call" :> 4 @@ "9123456780" :> 10 @@ "email" :> 5 @@ "+a@b.com" :> 8 @@ "send" :> 4 @@
    "money" :> 5 @@ "my" :> 2 @@ "1234-5678-9012-3456" :> 19 @@ "URGENT:" :> 7 @@
    "needs" :> 5 @@ "verification." :> 13 @@ "This" :> 4 @@ "appears" :> 7 @@
    "scam" :> 4 @@ "attempt." :> 8 @@ "has" :> 3 @@ "been" :> 4 @@ "suspended!" :> 10 @@
    "Immediate" :> 9 @@ "payment" :> 7 @@ "required" :> 8 @@ "unblock." :> 8 @@
    "test_2" :> 6 @@ "{invalid" :> 8 @@ "None" :> 4

\* token -> the one-word literals of the code that are substrings of token.lower()
Sub ==
    "today?" :> {"today"} @@ "WON" :> {"won"} @@ "lottery" :> {"lottery"} @@
    "prize" :> {"prize"} @@ "lakh!" :> {"lakh"} @@ "Send" :> {"send"} @@
    "UPI" :> {"upi"} @@ "claim" :> {"claim"} @@ "now!!!" :> {"now"} @@
    "account" :> {"acc", "account"} @@ "suspended." :> {"suspend"} @@ "Pay" :> {"pay"} @@
    "immediately" :> {"immediate", "immediately"} @@ "fraud@ybl." :> {"fraud"} @@
    "acc" :> {"acc"} @@ "bank" :> {"bank"} @@ "click" :> {"click"} @@ "link" :> {"link"} @@
    "URGENT" :> {"urgent"} @@ "NOW" :> {"now"} @@ "ALERT" :> {"alert"} @@
    "WARNING" :> {"warning"} @@ "DANGER!!!!!" :> {"danger"} @@ "call" :> {"call"} @@
    "send" :> {"send"} @@ "money" :> {"money"} @@ "URGENT:" :> {"urgent"} @@
    "verification." :> {"verification"} @@ "scam" :> {"scam"} @@
    "suspended!" :> {"suspend"} @@ "Immediate" :> {"immediate"} @@
    "payment" :> {"pay", "payment"} @@ "unblock." :> {"block"}

\* token -> the first words of two-word literals that token.lower() ends with
EndsLit ==
    "Send" :> {"send"} @@ "bank" :> {"bank"} @@ "send" :> {"send"}

\* token -> the second words of two-word literals that token.lower() starts with
StartsLit ==
    "now!!!" :> {"now"} @@ "Pay" :> {"pay"} @@ "NOW" :> {"now"} @@ "money" :> {"money"} @@
    "payment" :> {"pay"} @@ "required" :> {"required"}

\* token -> token.count('!')
ExclTable ==
    "lakh!" :> 1 @@ "now!!!" :> 3 @@ "DANGER!!!!!" :> 5 @@ "suspended!" :> 1

\* tokens w with w.isupper()
UpperTokens ==
    { "WON", "UPI", "ID", "URGENT", "NOW", "ALERT", "WARNING", "DANGER!!!!!", "URGENT:" }

\* tokens in which https?://[^\s]+ matches
UrlTokens ==
    { "http://a.tk/[x]", "http://bit.ly/x" }

\* URL tokens whose URL matches a known_scam_domains entry
ScamDomainUrls ==
    { "http://bit.ly/x" }

\* URL tokens whose URL contains a suspicious TLD
SuspiciousTldUrls ==
    { "http://a.tk/[x]" }

\* URL tokens whose URL holds an IPv4 literal
IpUrls ==
    {}

\* URL token -> len(url)
UrlLen ==
    "http://a.tk/[x]" :> 15 @@ "http://bit.ly/x" :> 15

\* token -> number of matches of the Indian phone pattern in it
PhoneCount ==
    "9123456780" :> 1

\* token -> the numbers the Indian phone pattern matches in it
PhoneNumbers ==
    "9123456780" :> {"9123456780"}

\* tokens in which \b\d{9,18}\b matches
AcctRunTokens ==
    { "123456789012", "9123456780" }

\* tokens holding local-part@known-handle
KnownHandleTokens ==
    { "fraud@ybl." }

\* tokens that end with upi and colons
UpiWordTokens ==
    { "UPI" }

\* tokens that start with local-part@word
HandleStartTokens ==
    { "fraud@ybl." }

\* tokens that end with pay
PayEndTokens ==
    { "Pay" }

\* the token to
ToTokens ==
    { "to" }

\* tokens holding a 16-digit card number
CardTokens ==
    { "1234-5678-9012-3456" }

\* tokens that end with a digit and commas
DigitEndTokens ==
    { "5", "123456789012", "9123456780", "1234-5678-9012-3456", "test_2" }

\* tokens that start with an amount unit
UnitStartTokens ==
    { "lakh!" }

\* tokens holding digits and an amount unit
AmountTokens ==
    {}

(***************************************************************************)
(* Texts as strings.                                                       *)
(***************************************************************************)
\* text.split(): the positions of the words of t
Words(t) == {i \in 1..Len(t) : t[i] # ""}

\* len(text)
TextLen(t) ==
    IF Len(t) = 0 THEN 0
    ELSE SumOver([i \in 1..Len(t) |-> TokLen[t[i]]], 1..Len(t)) + (Len(t) - 1)

\* len(text.strip())
StrippedLen(t) ==
    IF Words(t) = {} THEN 0
    ELSE LET f == CHOOSE i \in Words(t) : \A j \in Words(t) : i <= j
             l == CHOOSE i \in Words(t) : \A j \in Words(t) : i >= j
         IN  SumOver([i \in f..l |-> TokLen[t[i]]], f..l) + (l - f)

\* the position of the first word after position i, or 0 (what \s* and \s+ reach)
NextWord(t, i) ==
    IF \E j \in Words(t) : j > i
    THEN CHOOSE j \in Words(t) : j > i /\ \A k \in Words(t) : k > i => j <= k
    ELSE 0

\* the places <<first, last>> where the literal lit occurs in text.lower()
Occurrences(t, lit) ==
    IF lit \in DOMAIN TwoWord
    THEN {<<i, i + 1>> : i \in {j \in 1..(Len(t) - 1) :
              /\ TwoWord[lit][1] \in Lookup(EndsLit, t[j], {})
              /\ TwoWord[lit][2] \in Lookup(StartsLit, t[j + 1], {})}}
    ELSE {<<i, i>> : i \in {j \in 1..Len(t) : lit \in Lookup(Sub, t[j], {})}}

\* lit in text.lower()
Contains(t, lit) == Occurrences(t, lit) # {}

(***************************************************************************)
(* WorldClassScamDetector.                                                 *)
(***************************************************************************)
\* the marker of the amount group \d+[,\s]*(lakh|crore|million|thousand)
AMOUNT == "<amount>"

\* (groups, weight in tenths); the groups of one pattern are separated by .*?
scam_patterns ==
    << [atoms |-> <<{"won", "win", "winner"}, {"lottery", "prize", "reward"}, {AMOUNT}>>,
        weight |-> 10],
       [atoms |-> <<{"urgent", "emergency"}, {"account", "bank"}, {"block", "suspend"}>>,
        weight |-> 10],
       [atoms |-> <<{"government", "official", "rbi", "income tax"},
                    {"fine", "penalty", "payment"}>>,
        weight |-> 9],
       [atoms |-> <<{"send", "transfer", "pay"}, {"money", "amount"},
                    {"account", "upi", "bank"}>>,
        weight |-> 9],
       [atoms |-> <<{"click", "visit"}, {"link", "website", "url"}, {"verify", "confirm"}>>,
        weight |-> 8],
       [atoms |-> <<{"free", "gift", "bonus"}, {"claim", "collect"}, {"offer"}>>,
        weight |-> 7],
       [atoms |-> <<{"password", "otp", "pin", "cvv"}, {"share", "send", "provide"}>>,
        weight |-> 10],
       [atoms |-> <<{"aadhaar", "pan", "document"}, {"update", "verify", "submit"}>>,
        weight |-> 8] >>

\* where one group of a scam pattern matches
AtomOcc(t, atom) ==
    UNION {IF lit = AMOUNT
           THEN {<<i, i>> : i \in {j \in 1..Len(t) : t[j] \in AmountTokens}}
                \cup {<<i, NextWord(t, i)>> : i \in {j \in 1..Len(t) :
                          /\ t[j] \in DigitEndTokens
                          /\ NextWord(t, j) # 0
                          /\ t[NextWord(t, j)] \in UnitStartTokens}}
           ELSE Occurrences(t, lit) : lit \in atom}

RECURSIVE MatchFrom(_, _, _, _)
\* groups k.. of a pattern match, in order, after position `after`
MatchFrom(t, atoms, k, after) ==
    \/ k > Len(atoms)
    \/ \E o \in AtomOcc(t, atoms[k]) : o[1] > after /\ MatchFrom(t, atoms, k + 1, o[2])

\* re.search(pattern, text, re.IGNORECASE)
PatternMatches(t, p) == MatchFrom(t, p.atoms, 1, 0)

\* the pattern score, in tenths
calculate_pattern_score(t) ==
    LET hit == {k \in DOMAIN scam_patterns : PatternMatches(t, scam_patterns[k])}
    IN  IF hit = {} THEN 0
        ELSE LET k == CHOOSE x \in hit : \A y \in hit :
                          scam_patterns[x].weight >= scam_patterns[y].weight
             IN  scam_patterns[k].weight

\* category -> score in thirtieths: min(sum of the weights found / 3, 1.0)
calculate_keyword_score(t) ==
    [c \in DOMAIN keyword_categories |->
        LET found == {k \in DOMAIN keyword_categories[c] : Contains(t, k)}
        IN  Min(SumOver(keyword_categories[c], found), 30)]

urgency_keywords == {"urgent", "immediate", "emergency", "now", "today", "hurry", "quick"}

emotional_words == {"congratulations", "alert", "warning", "danger", "important", "attention"}

\* the features, as integers: exclamation_ratio in fifths, caps_ratio as
\* caps_words over n_words, length_score in tenths
calculate_linguistic_features(t) ==
    IF TextLen(t) = 0
    THEN [exclamation_ratio |-> 0, caps_words |-> 0, n_words |-> 1,
          urgency_words |-> 0, emotional_words |-> 0, length_score |-> 0]
    ELSE [exclamation_ratio |->
              Min(SumOver([i \in 1..Len(t) |-> Lookup(ExclTable, t[i], 0)], 1..Len(t)), 5),
          caps_words |->
              Cardinality({i \in Words(t) : t[i] \in UpperTokens /\ TokLen[t[i]] > 2}),
          n_words |-> Max(Cardinality(Words(t)), 1),
          urgency_words |-> Cardinality({w \in urgency_keywords : Contains(t, w)}),
          emotional_words |-> Cardinality({w \in emotional_words : Contains(t, w)}),
          length_score |-> IF TextLen(t) < 20 \/ TextLen(t) > 500 THEN 7 ELSE 0]

\* the score of one URL, in tenths
UrlScore(u) ==
    Max(IF u \in ScamDomainUrls THEN 9 ELSE 0,
    Max(IF u \in SuspiciousTldUrls THEN 8 ELSE 0,
    Max(IF u \in IpUrls THEN 7 ELSE 0,
        IF UrlLen[u] < 30 THEN 6 ELSE 0)))

\* the URL score, in tenths
analyze_urls(t) ==
    LET urls == {i \in 1..Len(t) : t[i] \in UrlTokens}
    IN  IF urls = {} THEN 0
        ELSE LET i == CHOOSE x \in urls : \A y \in urls : UrlScore(t[x]) >= UrlScore(t[y])
             IN  UrlScore(t[i])

suspicious_contexts == {"call", "whatsapp", "message", "contact", "number is"}

\* len(re.findall(indian_pattern, text))
PhoneMatches(t) == SumOver([i \in 1..Len(t) |-> Lookup(PhoneCount, t[i], 0)], 1..Len(t))

\* the phone score, in tenths
detect_phone_numbers(t) ==
    IF PhoneMatches(t) = 0 THEN 0
    ELSE IF PhoneMatches(t) > 1 THEN 8
    ELSE IF \E c \in suspicious_contexts : Contains(t, c) THEN 7
    ELSE 4

\* one of the three UPI patterns matches
UpiPatternMatches(t) ==
    \/ \E i \in 1..Len(t) : t[i] \in KnownHandleTokens
    \/ \E i \in 1..Len(t) :
          /\ t[i] \in UpiWordTokens
          /\ NextWord(t, i) # 0
          /\ t[NextWord(t, i)] \in HandleStartTokens
    \/ \E i \in 1..Len(t) :
          LET j == NextWord(t, i)
              k == IF j = 0 THEN 0 ELSE NextWord(t, j)
          IN  /\ t[i] \in PayEndTokens
              /\ j # 0 /\ t[j] \in ToTokens
              /\ k # 0 /\ t[k] \in HandleStartTokens

\* the financial-info score, in hundredths
analyze_financial_info(t) ==
    LET bank == IF \E i \in 1..Len(t) : t[i] \in AcctRunTokens
                THEN IF \E k \in {"account", "bank", "acc"} : Contains(t, k) THEN 90 ELSE 70
                ELSE 0
        upi  == IF UpiPatternMatches(t) THEN 95 ELSE 0
        card == IF \E i \in 1..Len(t) : t[i] \in CardTokens THEN 100 ELSE 0
    IN  Max(bank, Max(upi, card))

\* the linguistic score times 100 * n_words
LinguisticNum(f) ==
    f.exclamation_ratio * 6 * f.n_words
    + f.caps_words * 20
    + Min(f.urgency_words * 2, 4) * 10 * f.n_words
    + Min(f.emotional_words, 3) * 10 * f.n_words
    + f.length_score * 2 * f.n_words

critical_combinations ==
    << <<"financial_scam", "payment_demand">>,
       <<"urgency_pressure", "financial_threats">>,
       <<"authority_impersonation", "payment_demand">> >>

\* a critical combination has both its categories above 0.6
HasCriticalCombination(keyword_analysis) ==
    \E k \in DOMAIN critical_combinations :
        /\ keyword_analysis[critical_combinations[k][1]] > 18
        /\ keyword_analysis[critical_combinations[k][2]] > 18

\* the boost without its cap at 1.0
BoostUncapped(num, den, boosted) == IF boosted THEN num + den \div 5 ELSE num

\* total_confidence after the boost for critical combinations; num over den
Boost(num, den, boosted) == IF boosted THEN Min(num + den \div 5, den) ELSE num

\* the threshold lowered at the limits 0.7 and 0.8 too
ThresholdInclusive(financial_score, pattern_score) ==
    IF financial_score >= 70 \/ pattern_score >= 8 THEN 35 ELSE 40

\* the decision threshold, in hundredths
Threshold(financial_score, pattern_score) ==
    IF financial_score > 70 \/ pattern_score > 8 THEN 35 ELSE 40

\* total_confidence >= threshold
Decide(num, den, threshold) == num * 100 >= threshold * den

\* the result for a text that is empty or shorter than 3 characters
EmptyDetection == [is_scam |-> FALSE, confidence |-> <<0, 1>>, analysis |-> <<>>]

\* the test for the empty text alone
EmptyToClassify(t) == TextLen(t) = 0

\* not text or len(text.strip()) < 3
TooShortToClassify(t) == TextLen(t) = 0 \/ StrippedLen(t) < 3

\* (is_scam, confidence, analysis_report); the confidence is <<num, den>> with
\* den = 30000 * n_words, and the component scores are numerators over den
detect_scam(t) ==
    IF TooShortToClassify(t) THEN EmptyDetection
    ELSE
    LET keyword_analysis == calculate_keyword_score(t)
        keyword_score == LET c == CHOOSE x \in DOMAIN keyword_analysis :
                                     \A y \in DOMAIN keyword_analysis :
                                         keyword_analysis[x] >= keyword_analysis[y]
                         IN  keyword_analysis[c]
        pattern_score == calculate_pattern_score(t)
        url_score == analyze_urls(t)
        phone_score == detect_phone_numbers(t)
        financial_score == analyze_financial_info(t)
        linguistic == calculate_linguistic_features(t)
        n == linguistic.n_words
        den == 30000 * n
        scores == [keyword    |-> keyword_score * 350 * n,
                   pattern    |-> pattern_score * 750 * n,
                   financial  |-> financial_score * 60 * n,
                   url        |-> url_score * 300 * n,
                   phone      |-> phone_score * 150 * n,
                   linguistic |-> LinguisticNum(linguistic) * 15]
        sum == scores.keyword + scores.pattern + scores.financial + scores.url
               + scores.phone + scores.linguistic
        boosted == HasCriticalCombination(keyword_analysis)
        total == Boost(sum, den, boosted)
        threshold == Threshold(financial_score, pattern_score)
    IN  [is_scam |-> Decide(total, den, threshold),
         confidence |-> <<total, den>>,
         analysis |->
            [confidence |-> <<total, den>>,
             threshold_used |-> threshold,
             category_scores |-> keyword_analysis,
             detected_patterns |-> [urls_found |-> url_score > 0,
                                    phone_found |-> phone_score > 0,
                                    financial_info |-> financial_score > 0],
             linguistic_features |-> linguistic,
             component_scores |-> scores,
             decision_factors |->
                (IF keyword_score > 21 THEN <<"high_keyword_match">> ELSE <<>>)
                \o (IF financial_score > 80 THEN <<"financial_info_detected">> ELSE <<>>)
                \o (IF pattern_score > 7 THEN <<"known_scam_pattern">> ELSE <<>>)]]

(***************************************************************************)
(* Lexical tables of the extractor.  An extractor's regular expression is  *)
(* a sequence of steps, one token each: the first step is found at the end *)
(* of a token (or, for a one-step extractor, inside it), the others take   *)
(* the next word whole (a keyword or separator) or from its start (the     *)
(* captured value, or a lookahead).                                        *)
(***************************************************************************)
\* the types, in the order the code goes through them
pattern_types ==
    << "bank_account", "upi_id", "url", "phone_number", "email", "card_details" >>

\* type -> the (steps, base confidence in hundredths) extractors of the type, in order
patterns ==
  [
    bank_account |-> <<
        [conf |-> 95,
         steps |-> << [cls |-> "bank_account.1.1", opt |-> FALSE, look |-> FALSE],
                     [cls |-> "bank_account.1.2", opt |-> TRUE, look |-> FALSE],
                     [cls |-> "bank_account.1.3", opt |-> FALSE, look |-> FALSE] >>],
        [conf |-> 85,
         steps |-> << [cls |-> "bank_account.2.1", opt |-> FALSE, look |-> FALSE],
                     [cls |-> "bank_account.2.2", opt |-> FALSE, look |-> TRUE] >>],
        [conf |-> 98,
         steps |-> << [cls |-> "bank_account.3.1", opt |-> FALSE, look |-> FALSE],
                     [cls |-> "bank_account.3.2", opt |-> FALSE, look |-> FALSE],
                     [cls |-> "bank_account.3.3", opt |-> FALSE, look |-> FALSE] >>],
        [conf |-> 99,
         steps |-> << [cls |-> "bank_account.4.1", opt |-> FALSE, look |-> FALSE],
                     [cls |-> "bank_account.4.2", opt |-> FALSE, look |-> FALSE],
                     [cls |-> "bank_account.4.3", opt |-> FALSE, look |-> FALSE] >>] >>,
    upi_id |-> <<
        [conf |-> 97,
         steps |-> << [cls |-> "upi_id.1.1", opt |-> FALSE, look |-> FALSE] >>],
        [conf |-> 96,
         steps |-> << [cls |-> "upi_id.2.1", opt |-> FALSE, look |-> FALSE],
                     [cls |-> "upi_id.2.2", opt |-> TRUE, look |-> FALSE],
                     [cls |-> "upi_id.2.3", opt |-> FALSE, look |-> FALSE] >>],
        [conf |-> 94,
         steps |-> << [cls |-> "upi_id.3.1", opt |-> FALSE, look |-> FALSE],
                     [cls |-> "upi_id.3.2", opt |-> TRUE, look |-> FALSE],
                     [cls |-> "upi_id.3.3", opt |-> FALSE, look |-> FALSE] >>],
        [conf |-> 98,
         steps |-> << [cls |-> "upi_id.4.1", opt |-> FALSE, look |-> FALSE],
                     [cls |-> "upi_id.4.2", opt |-> FALSE, look |-> FALSE],
                     [cls |-> "upi_id.4.3", opt |-> FALSE, look |-> FALSE],
                     [cls |-> "upi_id.4.4", opt |-> FALSE, look |-> FALSE] >>],
        [conf |-> 95,
         steps |-> << [cls |-> "upi_id.5.1", opt |-> FALSE, look |-> FALSE] >>] >>,
    url |-> <<
        [conf |-> 90,
         steps |-> << [cls |-> "url.1.1", opt |-> FALSE, look |-> FALSE] >>],
        [conf |-> 97,
         steps |-> << [cls |-> "url.2.1", opt |-> FALSE, look |-> FALSE],
                     [cls |-> "url.2.2", opt |-> TRUE, look |-> FALSE],
                     [cls |-> "url.2.3", opt |-> FALSE, look |-> FALSE],
                     [cls |-> "url.2.4", opt |-> FALSE, look |-> FALSE] >>],
        [conf |-> 85,
         steps |-> << [cls |-> "url.3.1", opt |-> FALSE, look |-> FALSE] >>],
        [conf |-> 95,
         steps |-> << [cls |-> "url.4.1", opt |-> FALSE, look |-> FALSE],
                     [cls |-> "url.4.2", opt |-> TRUE, look |-> FALSE],
                     [cls |-> "url.4.3", opt |-> FALSE, look |-> FALSE] >>] >>,
    phone_number |-> <<
        [conf |-> 80,
         steps |-> << [cls |-> "phone_number.1.1", opt |-> FALSE, look |-> FALSE] >>],
        [conf |-> 90,
         steps |-> << [cls |-> "phone_number.2.1", opt |-> FALSE, look |-> FALSE],
                     [cls |-> "phone_number.2.2", opt |-> TRUE, look |-> FALSE],
                     [cls |-> "phone_number.2.3", opt |-> FALSE, look |-> FALSE] >>],
        [conf |-> 88,
         steps |-> << [cls |-> "phone_number.3.1", opt |-> FALSE, look |-> FALSE],
                     [cls |-> "phone_number.3.2", opt |-> TRUE, look |-> FALSE],
                     [cls |-> "phone_number.3.3", opt |-> FALSE, look |-> FALSE] >>],
        [conf |-> 92,
         steps |-> << [cls |-> "phone_number.4.1", opt |-> FALSE, look |-> FALSE],
                     [cls |-> "phone_number.4.2", opt |-> TRUE, look |-> FALSE],
                     [cls |-> "phone_number.4.3", opt |-> FALSE, look |-> FALSE] >>] >>,
    email |-> <<
        [conf |-> 80,
         steps |-> << [cls |-> "email.1.1", opt |-> FALSE, look |-> FALSE] >>],
        [conf |-> 90,
         steps |-> << [cls |-> "email.2.1", opt |-> FALSE, look |-> FALSE],
                     [cls |-> "email.2.2", opt |-> TRUE, look |-> FALSE],
                     [cls |-> "email.2.3", opt |-> FALSE, look |-> FALSE] >>] >>,
    card_details |-> <<
        [conf |-> 99,
         steps |-> << [cls |-> "card_details.1.1", opt |-> FALSE, look |-> FALSE] >>],
        [conf |-> 100,
         steps |-> << [cls |-> "card_details.2.1", opt |-> FALSE, look |-> FALSE],
                     [cls |-> "card_details.2.2", opt |-> FALSE, look |-> FALSE],
                     [cls |-> "card_details.2.3", opt |-> FALSE, look |-> FALSE] >>],
        [conf |-> 95,
         steps |-> << [cls |-> "card_details.3.1", opt |-> FALSE, look |-> FALSE],
                     [cls |-> "card_details.3.2", opt |-> TRUE, look |-> FALSE],
                     [cls |-> "card_details.3.3", opt |-> FALSE, look |-> FALSE] >>],
        [conf |-> 90,
         steps |-> << [cls |-> "card_details.4.1", opt |-> FALSE, look |-> FALSE],
                     [cls |-> "card_details.4.2", opt |-> TRUE, look |-> FALSE],
                     [cls |-> "card_details.4.3", opt |-> FALSE, look |-> FALSE] >>] >>
  ]

\* step -> the tokens the step's part of the regular expression accepts
TokClass ==
    "bank_account.1.1" :> {"account", "acc"} @@ "bank_account.1.2" :> {"no:"} @@
    "bank_account.1.3" :> {"123456789012", "9123456780"} @@
    "bank_account.2.1" :> {"123456789012", "9123456780"} @@
    "bank_account.2.2" :> {"today?", "of", "to", "account", "bank"} @@
    "bank_account.3.1" :> {"bank"} @@ "bank_account.3.2" :> {"account"} @@
    "bank_account.3.3" :> {"123456789012", "9123456780"} @@ "bank_account.4.1" :> {} @@
    "bank_account.4.2" :> {"account", "acc"} @@
    "bank_account.4.3" :> {"123456789012", "9123456780"} @@
    "upi_id.1.1" :> {"fraud@ybl."} @@ "upi_id.2.1" :> {"UPI"} @@ "upi_id.2.2" :> {"ID"} @@
    "upi_id.2.3" :> {"fraud@ybl."} @@ "upi_id.3.1" :> {"Pay"} @@
    "upi_id.3.2" :> {"to", "via"} @@ "upi_id.3.3" :> {"fraud@ybl."} @@
    "upi_id.4.1" :> {"Send", "send"} @@ "upi_id.4.2" :> {"money", "payment"} @@
    "upi_id.4.3" :> {"to"} @@ "upi_id.4.4" :> {"fraud@ybl."} @@ "upi_id.5.1" :> {} @@
    "url.1.1" :> {"http://a.tk/[x]", "http://bit.ly/x"} @@ "url.2.1" :> {"click"} @@
    "url.2.2" :> {"This"} @@ "url.2.3" :> {"link"} @@
    "url.2.4" :> {"http://a.tk/[x]", "http://bit.ly/x"} @@
    "url.3.1" :> {"http://bit.ly/x"} @@ "url.4.1" :> {"Pay", "payment"} @@
    "url.4.2" :> {"link"} @@ "url.4.3" :> {"http://a.tk/[x]", "http://bit.ly/x"} @@
    "phone_number.1.1" :> {"9123456780"} @@ "phone_number.2.1" :> {} @@
    "phone_number.2.2" :> {"no:"} @@ "phone_number.2.3" :> {"9123456780"} @@
    "phone_number.3.1" :> {"call"} @@ "phone_number.3.2" :> {} @@
    "phone_number.3.3" :> {"9123456780"} @@ "phone_number.4.1" :> {} @@
    "phone_number.4.2" :> {"no:"} @@ "phone_number.4.3" :> {"9123456780"} @@
    "email.1.1" :> {"+a@b.com"} @@ "email.2.1" :> {"email"} @@ "email.2.2" :> {"ID"} @@
    "email.2.3" :> {"+a@b.com"} @@ "card_details.1.1" :> {"1234-5678-9012-3456"} @@
    "card_details.2.1" :> {} @@ "card_details.2.2" :> {"no:"} @@
    "card_details.2.3" :> {"1234-5678-9012-3456"} @@ "card_details.3.1" :> {} @@
    "card_details.3.2" :> {} @@
    "card_details.3.3" :> {"123456789012", "9123456780", "1234-5678-9012-3456"} @@
    "card_details.4.1" :> {} @@ "card_details.4.2" :> {} @@ "card_details.4.3" :> {}

\* capturing step -> token -> the text the group captures in it
Captured ==
    "bank_account.1.3" :> ("123456789012" :> "123456789012" @@ "9123456780" :> "9123456780") @@
    "bank_account.2.1" :> ("123456789012" :> "123456789012" @@ "9123456780" :> "9123456780") @@
    "bank_account.3.3" :> ("123456789012" :> "123456789012" @@ "9123456780" :> "9123456780") @@
    "bank_account.4.3" :> ("123456789012" :> "123456789012" @@ "9123456780" :> "9123456780") @@
    "upi_id.1.1" :> ("fraud@ybl." :> "fraud@ybl") @@
    "upi_id.2.3" :> ("fraud@ybl." :> "fraud@ybl.") @@
    "upi_id.3.3" :> ("fraud@ybl." :> "fraud@ybl.") @@
    "upi_id.4.4" :> ("fraud@ybl." :> "fraud@ybl.") @@ "upi_id.5.1" :> <<>> @@
    "url.1.1" :> ("http://a.tk/[x]" :> "http://a.tk/" @@ "http://bit.ly/x" :> "http://bit.ly/x") @@
    "url.2.4" :> ("http://a.tk/[x]" :> "http://a.tk/[x]" @@ "http://bit.ly/x" :> "http://bit.ly/x") @@
    "url.3.1" :> ("http://bit.ly/x" :> "bit.ly/x") @@
    "url.4.3" :> ("http://a.tk/[x]" :> "http://a.tk/[x]" @@ "http://bit.ly/x" :> "http://bit.ly/x") @@
    "phone_number.1.1" :> ("9123456780" :> "9123456780") @@
    "phone_number.2.3" :> ("9123456780" :> "9123456780") @@
    "phone_number.3.3" :> ("9123456780" :> "9123456780") @@
    "phone_number.4.3" :> ("9123456780" :> "9123456780") @@
    "email.1.1" :> ("+a@b.com" :> "a@b.com") @@
    "email.2.3" :> ("+a@b.com" :> "+a@b.com") @@
    "card_details.1.1" :> ("1234-5678-9012-3456" :> "1234-5678-9012-3456") @@
    "card_details.2.3" :> ("1234-5678-9012-3456" :> "1234-5678-9012-3456") @@
    "card_details.3.3" :> ("123456789012" :> "1234" @@ "9123456780" :> "9123" @@ "1234-5678-9012-3456" :> "1234") @@
    "card_details.4.3" :> <<>>

\* type -> captured text -> clean_value(captured text, type)
CleanTable ==
  [
    bank_account |-> ("123456789012" :> "123456789012" @@ "9123456780" :> "9123456780"),
    upi_id |-> ("fraud@ybl" :> "fraud@ybl" @@ "fraud@ybl." :> "fraud@ybl"),
    url |-> ("http://a.tk/" :> "http://a.tk/" @@ "http://bit.ly/x" :> "http://bit.ly/x" @@ "http://a.tk/[x]" :> "http://a.tk/[x" @@ "bit.ly/x" :> "http://bit.ly/x"),
    phone_number |-> ("9123456780" :> "9123456780"),
    email |-> ("a@b.com" :> "a@b.com" @@ "+a@b.com" :> "+a@b.com"),
    card_details |-> ("1234-5678-9012-3456" :> "1234-5678-9012-3456" @@ "1234" :> "1234" @@ "9123" :> "9123")
  ]

\* type -> the cleaned values that a false_positive_filters entry of the type rejects
FalsePositives ==
  [
    bank_account |-> {},
    upi_id |-> {},
    url |-> {},
    phone_number |-> {},
    email |-> {},
    card_details |-> {}
  ]

\* type -> f"{pattern_type.replace('_', '')}s"
ResultKey ==
    "bank_account" :> "bankaccounts" @@ "upi_id" :> "upiids" @@ "url" :> "urls" @@
    "phone_number" :> "phonenumbers" @@ "email" :> "emails" @@
    "card_details" :> "carddetailss"

(***************************************************************************)
(* EliteIntelligenceExtractor.                                             *)
(***************************************************************************)
\* an extractor confidence of 1.0
ConfUnit == 10 ^ 8

\* a confidence given in hundredths
Hundredths(c) == c * (ConfUnit \div 100)

\* confidence *= 0.7
Degrade(c) == (c * 7) \div 10

\* the keys of the results of extract_all
result_keys == {"bank_accounts", "upi_ids", "urls", "phone_numbers", "emails", "card_details"}

\* type -> the words one of which the text must hold for the type to have context
context_rules ==
    "bank_account" :> {"account", "bank", "transfer", "send"} @@
    "upi_id" :> {"upi", "pay", "send money", "transfer"} @@
    "url" :> {"click", "visit", "link", "website"}

clean_value(value, pattern_type) == CleanTable[pattern_type][value]

is_false_positive(value, pattern_type) == value \in FalsePositives[pattern_type]

has_context(t, pattern_type) ==
    IF pattern_type \in DOMAIN context_rules
    THEN \E w \in context_rules[pattern_type] : Contains(t, w)
    ELSE TRUE

RECURSIVE StepMatch(_, _, _, _)
\* steps k.. of an extractor match after the token at prev: the position of the last
\* token taken (the one the value is captured in), or 0 when they do not match
StepMatch(t, steps, k, prev) ==
    IF k > Len(steps) THEN prev
    ELSE LET j == NextWord(t, prev)
             here == j # 0 /\ t[j] \in TokClass[steps[k].cls]
         IN  IF steps[k].look
             THEN IF here THEN StepMatch(t, steps, k + 1, prev) ELSE 0
             ELSE LET taken == IF here THEN StepMatch(t, steps, k + 1, j) ELSE 0
                  IN  IF taken # 0 \/ ~steps[k].opt THEN taken
                      ELSE StepMatch(t, steps, k + 1, prev)

\* the extractor matches with its first step at token i: the position of the value, or 0
MatchAt(t, steps, i) ==
    IF t[i] \in TokClass[steps[1].cls] THEN StepMatch(t, steps, 2, i) ELSE 0

\* the step of an extractor that captures the value
ValueStep(steps) ==
    CHOOSE k \in DOMAIN steps : steps[k].cls \in DOMAIN Captured /\
        \A m \in DOMAIN steps : steps[m].cls \in DOMAIN Captured => m <= k

\* one pass of the body of the match loop: the confidence after it
ConfidenceAfter(t, pattern_type, confidence) ==
    IF has_context(t, pattern_type) THEN confidence ELSE Degrade(confidence)

RECURSIVE MatchItems(_, _, _, _, _)
\* the items one extractor appends for its matches from token i on, given the
\* confidence it has come to
MatchItems(t, pattern_type, steps, i, confidence) ==
    IF i > Len(t) THEN <<>>
    ELSE LET e == MatchAt(t, steps, i) IN
         IF e = 0 THEN MatchItems(t, pattern_type, steps, i + 1, confidence)
         ELSE LET raw == Captured[steps[ValueStep(steps)].cls][t[e]]
                  value == clean_value(raw, pattern_type)
              IN  IF value = "" \/ is_false_positive(value, pattern_type)
                  THEN MatchItems(t, pattern_type, steps, e + 1, confidence)
                  ELSE LET c == ConfidenceAfter(t, pattern_type, confidence)
                       IN  <<[value |-> value, confidence |-> c]>>
                           \o MatchItems(t, pattern_type, steps, e + 1, c)

\* the items the extractors of one type come to, in order, before they are filed
TypeItems(t, pattern_type) ==
    Flatten([p \in DOMAIN patterns[pattern_type] |->
                MatchItems(t, pattern_type, patterns[pattern_type][p].steps, 1,
                           Hundredths(patterns[pattern_type][p].conf))])

\* the items appended to results[key] by the pattern loop
Appended(t, key) ==
    Flatten([k \in DOMAIN pattern_types |->
                IF ResultKey[pattern_types[k]] = key
                THEN TypeItems(t, pattern_types[k])
                ELSE <<>>])

RECURSIVE Unique(_, _)
\* the items whose value is not in seen nor in an earlier item
Unique(items, seen) ==
    IF items = <<>> THEN <<>>
    ELSE IF Head(items).value \in seen THEN Unique(Tail(items), seen)
    ELSE <<Head(items)>> \o Unique(Tail(items), seen \cup {Head(items).value})

RECURSIVE InsertDesc(_, _)
\* x put into the descending sequence s, after the items that are not below it
InsertDesc(s, x) ==
    IF s = <<>> THEN <<x>>
    ELSE IF Head(s).confidence >= x.confidence THEN <<Head(s)>> \o InsertDesc(Tail(s), x)
    ELSE <<x>> \o s

\* the items left in the order they were appended in
Unsorted(items) == items

RECURSIVE SortDesc(_)
\* sorted(items, key=confidence, reverse=True): stable
SortDesc(items) ==
    IF items = <<>> THEN <<>>
    ELSE InsertDesc(SortDesc(SubSeq(items, 1, Len(items) - 1)), items[Len(items)])

\* the confidence below which an item is dropped: 0.6
MinConfidence == Hundredths(60)

\* [item for item in items if item["confidence"] >= 0.6]
FilterLow(items) == SelectSeq(items, LAMBDA it : it.confidence >= MinConfidence)

\* key -> the items to return for the key
Finish(items) == FilterLow(SortDesc(Unique(items, {})))

EmptyResults == [key \in result_keys |-> <<>>]

\* not text or len(text.strip()) < 10
TooShortToExtract(t) == TextLen(t) = 0 \/ StrippedLen(t) < 10

\* extract_all(text): key -> items [value, confidence]
extract_all(t) ==
    IF TooShortToExtract(t) THEN EmptyResults
    ELSE [key \in result_keys |-> Finish(Appended(t, key))]


(***************************************************************************)
(* The session handler (app/guvi_handler.py).                              *)
(***************************************************************************)
\* a turn above 0.7, with a link
TScam == PLottery \o PMoney \o PShort

\* a turn above 0.7, but lower than TScam
TMoney == PMoney

\* a turn classified as a scam, but not above 0.7
TLottery == PLottery

\* a turn that is no scam
TGreeting == PGreeting

\* a turn that is no scam, with a link
TLink == PLink

\* the texts of the turns of the sessions
TurnTexts == {TScam, TMoney, TLottery, TGreeting, TLink}

\* what the classifier and the extractor return for the texts of the turns; both are
\* functions of the text alone, and the sessions look their results up in this table
TurnAnalyses ==
    [t \in TurnTexts |-> [detection |-> detect_scam(t), extraction |-> extract_all(t)]]

\* the lists of an Intelligence
intelligence_lists ==
    {"bank_accounts", "upi_ids", "urls", "phone_numbers", "emails", "card_details", "amounts"}

\* Intelligence(): every list empty
Intelligence == [list \in intelligence_lists |-> <<>>]

\* the fields of a ConversationState that its constructor call leaves to their
\* defaults: no intelligence yet, engagement level 0
ConversationStateDefaults == [extracted_intelligence |-> Intelligence, engagement_level |-> 0]

\* ConversationState(session_id=..., messages=[], scam_detected=False, scam_confidence=0.0)
ConversationState(session_id) ==
    [session_id |-> session_id,
     messages |-> <<>>,
     scam_detected |-> FALSE,
     scam_confidence |-> <<0, 1>>,
     extracted_intelligence |-> ConversationStateDefaults.extracted_intelligence,
     engagement_level |-> ConversationStateDefaults.engagement_level]

\* Message(sender=..., text=...)
Message(sender, t) == [sender |-> sender, text |-> t]

\* confidence > tenths / 10, for a confidence <<num, den>>
Exceeds(confidence, tenths) == confidence[1] * 10 > tenths * confidence[2]

\* state.scam_detected turned off again by a turn that is not above 0.7
ScamDetectedFollows(scam_detected, scam_confidence) == Exceeds(scam_confidence, 7)

\* state.scam_detected after the update for a turn of confidence scam_confidence
ScamDetectedAfter(scam_detected, scam_confidence) ==
    IF Exceeds(scam_confidence, 7) /\ ~scam_detected THEN TRUE ELSE scam_detected

\* state.scam_confidence after the update
ScamConfidenceAfter(state, scam_confidence) ==
    IF Exceeds(scam_confidence, 7) /\ ~state.scam_detected
    THEN scam_confidence ELSE state.scam_confidence

\* the result keys whose items the handler appends to the list of the same name
appended_types == {"bank_accounts", "upi_ids", "urls", "phone_numbers", "emails"}

\* ExtractedItem(value=..., type=item_type, confidence=...)
ExtractedItem(item, item_type) ==
    [value |-> item.value, type |-> item_type, confidence |-> item.confidence]

\* state.extracted_intelligence after the items of extracted_raw are appended
IntelligenceAfter(intelligence, extracted_raw) ==
    [list \in DOMAIN intelligence |->
        IF list \in appended_types /\ list \in DOMAIN extracted_raw
        THEN intelligence[list]
             \o [i \in DOMAIN extracted_raw[list] |-> ExtractedItem(extracted_raw[list][i], list)]
        ELSE intelligence[list]]

\* def generate_response(self, turn_count, scam_confidence, extracted_intelligence=None)
generate_response_parameters ==
    [required |-> {"turn_count", "scam_confidence"}, optional |-> {"extracted_intelligence"}]

\* the keyword arguments process_guvi_request calls generate_response with
generate_response_arguments == {"turns", "scam_confidence", "extracted_intelligence", "context"}

\* a call with keyword arguments binds when each names a parameter and no required
\* parameter is left out; otherwise it raises TypeError
Binds(parameters, arguments) ==
    /\ arguments \subseteq (parameters.required \cup parameters.optional)
    /\ parameters.required \subseteq arguments

\* state.engagement_level >= 8 sends the final callback
CallbackThreshold == 8

\* the lists of responses of _generate_initial_response each hold four replies
InitialReplies == 4

\* _generate_initial_response: the list the reply is drawn from
InitialResponseBand(scam_confidence) ==
    IF Exceeds(scam_confidence, 7) THEN "high_scam"
    ELSE IF Exceeds(scam_confidence, 4) THEN "medium_scam"
    ELSE "low_scam"

\* what requests.post comes to: status 200, another status, or an exception
PostOutcomes == {"200", "500", "exception"}

RECURSIVE Values(_)
\* [item.value for item in items]
Values(items) == IF items = <<>> THEN <<>> ELSE <<Head(items).value>> \o Values(Tail(items))

\* the FinalResult _send_final_callback posts for a state
FinalResult(state) ==
    [sessionId |-> state.session_id,
     scamDetected |-> state.scam_detected,
     totalMessagesExchanged |-> Len(state.messages),
     extractedIntelligence |->
        [bankAccounts |-> Values(state.extracted_intelligence.bank_accounts),
         upiIds |-> Values(state.extracted_intelligence.upi_ids),
         phishingLinks |-> Values(state.extracted_intelligence.urls),
         phoneNumbers |-> Values(state.extracted_intelligence.phone_numbers)]]

\* conversations with the state of a session put in
Stored(state) ==
    [sid \in DOMAIN conversations \cup {state.session_id} |->
        IF sid = state.session_id THEN state ELSE conversations[sid]]

\* del self.conversations[session_id]
Deleted(session_id) == [sid \in DOMAIN conversations \ {session_id} |-> conversations[sid]]

\* the outcome of a process_guvi_request call
Returned(session_id, reply) == [session_id |-> session_id, status |-> "success", reply |-> reply]

Raised(session_id, error) == [session_id |-> session_id, status |-> "raised", error |-> error]

\* _send_final_callback(state), with the outcome of the POST: the session is deleted
\* on status 200 only, and an exception is swallowed
SendFinalCallback(state, outcome) ==
    /\ callbacks' = Append(callbacks, [payload |-> FinalResult(state), outcome |-> outcome])
    /\ conversations' = IF outcome = "200" THEN Deleted(state.session_id) ELSE Stored(state)

\* scam_detector.detect_scam(t), looked up for the texts of the turns
DetectedFor(t) == analyses[t].detection

\* intelligence_extractor.extract_all(t), looked up for the texts of the turns
ExtractedFor(t) == analyses[t].extraction

\* process_guvi_request(request) for request.sessionId = session_id,
\* request.message = message and request.conversationHistory = history; the state
\* object is changed in place, so what is done before an exception stays done.
\* The text of the agent's reply is not modelled here.
ProcessGuviRequest(session_id, message, history) ==
    LET created == IF session_id \in DOMAIN conversations
                   THEN conversations[session_id] ELSE ConversationState(session_id)
        result == DetectedFor(message.text)
        detected == [created EXCEPT
                        !.messages = created.messages \o history \o <<message>>,
                        !.scam_detected = ScamDetectedAfter(@, result.confidence),
                        !.scam_confidence = ScamConfidenceAfter(created, result.confidence)]
        extracted_raw == ExtractedFor(message.text)
        state == [detected EXCEPT
                     !.extracted_intelligence = IntelligenceAfter(@, extracted_raw)]
    IN  /\ IF state.scam_detected
           THEN IF Binds(generate_response_parameters, generate_response_arguments)
                THEN LET engaged == [state EXCEPT !.engagement_level = @ + 1]
                     IN  /\ response' = Returned(session_id, "agent")
                         /\ IF engaged.engagement_level >= CallbackThreshold
                            THEN \E outcome \in PostOutcomes :
                                     SendFinalCallback(engaged, outcome)
                            ELSE /\ conversations' = Stored(engaged)
                                 /\ UNCHANGED callbacks
                ELSE /\ response' = Raised(session_id, "TypeError")
                     /\ conversations' = Stored(state)
                     /\ UNCHANGED callbacks
           ELSE /\ \E choice \in 1..InitialReplies :
                       response' = Returned(session_id,
                                       <<InitialResponseBand(result.confidence), choice>>)
                /\ conversations' = Stored(state)
                /\ UNCHANGED callbacks
        /\ UNCHANGED <<text, detection, extraction, analyses>>
        /\ UNCHANGED serviceVars

(***************************************************************************)
(* The conversation memory of the service (app/memory.py).                 *)
(*                                                                         *)
(* self.memory is an OrderedDict: here the sequence of its values in the   *)
(* order of the dict, the first the one popitem(last=False) removes.  The  *)
(* clock of datetime.utcnow() is the number of the call.                   *)
(***************************************************************************)
\* ConversationMemory(max_conversations)
ConversationMemory(max_conversations) == [memory |-> <<>>, max_size |-> max_conversations]

\* the keys of self.memory
MemoryIds(m) == {m.memory[i].id : i \in DOMAIN m.memory}

\* self.memory[conversation_id]
MemoryEntry(m, conversation_id) ==
    m.memory[CHOOSE i \in DOMAIN m.memory : m.memory[i].id = conversation_id]

\* the OrderedDict without the key conversation_id, the order of the rest kept
Without(entries, conversation_id) ==
    SelectSeq(entries, LAMBDA e : e.id # conversation_id)

\* a variant of move_to_end that leaves the entry where it is
LeftInPlace(entries, data) ==
    [i \in DOMAIN entries |-> IF entries[i].id = data.id THEN data ELSE entries[i]]

\* data changed in place, then self.memory.move_to_end(conversation_id)
MovedToEnd(entries, data) == Append(Without(entries, data.id), data)

\* self.memory.popitem(last=False) when len(self.memory) >= self.max_size
Evicted(m) == IF Len(m.memory) >= m.max_size THEN Tail(m.memory) ELSE m.memory

\* the dict get_conversation creates for a new id
new_conv(conversation_id, now) ==
    [id |-> conversation_id, created |-> now, last_accessed |-> now, turns |-> 0]

\* self.memory after get_conversation(conversation_id) at time now
get_conversation(m, conversation_id, now) ==
    IF conversation_id \in MemoryIds(m)
    THEN [m EXCEPT !.memory =
             MovedToEnd(@, [MemoryEntry(m, conversation_id) EXCEPT !.last_accessed = now])]
    ELSE [m EXCEPT !.memory = Append(Evicted(m), new_conv(conversation_id, now))]

\* self.memory after update_turns(conversation_id) at time now
update_turns(m, conversation_id, now) ==
    IF conversation_id \in MemoryIds(m)
    THEN [m EXCEPT !.memory =
             [i \in DOMAIN @ |->
                 IF @[i].id = conversation_id
                 THEN [@[i] EXCEPT !.turns = @ + 1, !.last_accessed = now]
                 ELSE @[i]]]
    ELSE m

(***************************************************************************)
(* The response orchestrator (app/agent/orchestrator.py).                  *)
(*                                                                         *)
(* A response is the sequence of the string literals it is concatenated    *)
(* from; StrLen gives the number of characters of each.                    *)
(***************************************************************************)
\* self.response_strategies
response_strategies ==
    [initial_engagement |->
        [stage |-> 0,
         responses |->
            <<"Hi, I received your message.",
              "Hello, who is this?",
              "I got a notification about this.",
              "Is this regarding the recent message I received?",
              "Can you tell me more about this?",
              "I'm not sure I understand, can you explain?",
              "This is concerning. What should I do?">>],
     playing_dumb |->
        [stage |-> 1,
         responses |->
            <<"I'm not very tech-savvy. Can you guide me through this?",
              "My app keeps showing errors. What do I do?",
              "I tried but it's not working. Can you help step by step?",
              "Sorry, I'm new to this. Can you explain like I'm a beginner?",
              "Which option should I select? I'm confused.",
              "The website is loading slowly. Is that normal?",
              "My phone is old. Will that cause any issues?">>],
     seeking_assurance |->
        [stage |-> 2,
         responses |->
            <<"Are you sure this is safe? I've heard about scams.",
              "Can you provide official verification?",
              "Is there a customer care number I can call to confirm?",
              "This seems urgent. Why wasn't I notified earlier?",
              "Can you send this in writing or email?",
              "I need to check with my family first.",
              "What happens if I don't do this immediately?">>],
     extraction_phase |->
        [stage |-> 3,
         responses |->
            <<"What details exactly do you need from me?",
              "Can you share your UPI ID again? I didn't save it.",
              "What's the account number where I should send money?",
              "Can you send the link one more time?",
              "Should I share my bank details here or somewhere else?",
              "Is it okay to share my Aadhaar number for verification?",
              "What's the website where I need to enter my details?">>],
     delaying_tactics |->
        [stage |-> 4,
         responses |->
            <<"My internet is slow. Please wait.",
              "Let me charge my phone first.",
              "I need to find my debit card. One minute.",
              "The OTP hasn't arrived yet. Should I request again?",
              "My bank app needs an update. It's taking time.",
              "I'm at work. Can we continue in 10 minutes?",
              "Let me check with my bank once.">>]]

\* self.modifiers
modifiers ==
    [concerned |-> <<"Actually, ",
                     "Wait, ",
                     "Hmm... ",
                     "Sorry, ">>,
     urgent |-> <<"Quickly, ",
                  "Immediately, ",
                  "Asap, ",
                  "Right now, ">>,
     confused |-> <<"I think ",
                    "Maybe ",
                    "Probably ",
                    "Perhaps ">>,
     agreeable |-> <<"Okay, ",
                     "Alright, ",
                     "Sure, ",
                     "Yes, ">>]

\* self.fillers
fillers ==
    <<"please",
      "sorry",
      "brother",
      "sir",
      "madam",
      "actually",
      "basically",
      "like",
      "you know">>

\* the items generate_response asks for, by the key that lacks them
missing_item_names ==
    <<[key |-> "bank_accounts", item |-> "bank account number"],
      [key |-> "upi_ids", item |-> "UPI ID"],
      [key |-> "urls", item |-> "website link"]>>

\* urgency_phrases
urgency_phrases ==
    <<"It's very urgent!",
      "Please hurry!",
      "Time is running out!">>

\* len(s) for the string literals of the orchestrator and of the replies of main.py
StrLen ==
    "Hi, I received your message." :> 28 @@
    "Hello, who is this?" :> 19 @@
    "I got a notification about this." :> 32 @@
    "Is this regarding the recent message I received?" :> 48 @@
    "Can you tell me more about this?" :> 32 @@
    "I'm not sure I understand, can you explain?" :> 43 @@
    "This is concerning. What should I do?" :> 37 @@
    "I'm not very tech-savvy. Can you guide me through this?" :> 55 @@
    "My app keeps showing errors. What do I do?" :> 42 @@
    "I tried but it's not working. Can you help step by step?" :> 56 @@
    "Sorry, I'm new to this. Can you explain like I'm a beginner?" :> 60 @@
    "Which option should I select? I'm confused." :> 43 @@
    "The website is loading slowly. Is that normal?" :> 46 @@
    "My phone is old. Will that cause any issues?" :> 44 @@
    "Are you sure this is safe? I've heard about scams." :> 50 @@
    "Can you provide official verification?" :> 38 @@
    "Is there a customer care number I can call to confirm?" :> 54 @@
    "This seems urgent. Why wasn't I notified earlier?" :> 49 @@
    "Can you send this in writing or email?" :> 38 @@
    "I need to check with my family first." :> 37 @@
    "What happens if I don't do this immediately?" :> 44 @@
    "What details exactly do you need from me?" :> 41 @@
    "Can you share your UPI ID again? I didn't save it." :> 50 @@
    "What's the account number where I should send money?" :> 52 @@
    "Can you send the link one more time?" :> 36 @@
    "Should I share my bank details here or somewhere else?" :> 54 @@
    "Is it okay to share my Aadhaar number for verification?" :> 55 @@
    "What's the website where I need to enter my details?" :> 52 @@
    "My internet is slow. Please wait." :> 33 @@
    "Let me charge my phone first." :> 29 @@
    "I need to find my debit card. One minute." :> 41 @@
    "The OTP hasn't arrived yet. Should I request again?" :> 51 @@
    "My bank app needs an update. It's taking time." :> 46 @@
    "I'm at work. Can we continue in 10 minutes?" :> 43 @@
    "Let me check with my bank once." :> 31 @@
    "Actually, " :> 10 @@
    "Wait, " :> 6 @@
    "Hmm... " :> 7 @@
    "Sorry, " :> 7 @@
    "Quickly, " :> 9 @@
    "Immediately, " :> 13 @@
    "Asap, " :> 6 @@
    "Right now, " :> 11 @@
    "I think " :> 8 @@
    "Maybe " :> 6 @@
    "Probably " :> 9 @@
    "Perhaps " :> 8 @@
    "Okay, " :> 6 @@
    "Alright, " :> 9 @@
    "Sure, " :> 6 @@
    "Yes, " :> 5 @@
    "please" :> 6 @@
    "sorry" :> 5 @@
    "brother" :> 7 @@
    "sir" :> 3 @@
    "madam" :> 5 @@
    "actually" :> 8 @@
    "basically" :> 9 @@
    "like" :> 4 @@
    "you know" :> 8 @@
    "bank account number" :> 19 @@
    "UPI ID" :> 6 @@
    "website link" :> 12 @@
    "It's very urgent!" :> 17 @@
    "Please hurry!" :> 13 @@
    "Time is running out!" :> 20 @@
    " " :> 1 @@
    " What's the " :> 12 @@
    "?" :> 1 @@
    "..." :> 3 @@
    "I understand your concern about the urgent message. This appears to be a potential scam attempt. Please do not share any personal or financial information, and contact your bank directly using official channels." :> 211 @@
    "Thank you for your message. I've received your communication and will respond appropriately." :> 92 @@
    "I understand this is an urgent matter. However, I need to verify your identity first. Could you please provide your customer ID or registered mobile number?" :> 156 @@
    "Thank you for the information. Let me check the status of your account. Could you clarify which bank you're referring to?" :> 121 @@
    "I've received your message. Please provide more details so I can assist you better." :> 83 @@
    "Thank you for contacting me. This appears to be a potential security concern. Please contact your bank's official customer service for verification." :> 148

\* len(response) for a response made of the literals parts
RECURSIVE Length(_)
Length(parts) == IF parts = <<>> THEN 0 ELSE StrLen[Head(parts)] + Length(Tail(parts))

\* extracted_items[key] is a non-empty list
HasItems(extracted_items, key) ==
    key \in DOMAIN extracted_items /\ Len(extracted_items[key]) > 0

\* a variant of the stage adjustment without the cap
UncappedStage(stage) == stage + 1

\* min(context["stage"] + 1, 4)
AdjustedStage(stage) == Min(stage + 1, 4)

\* a variant of analyze_context that leaves the stage to the turn count alone
analyze_by_turn_count(turn_count, scam_confidence, extracted_items) ==
    [stage |-> Min(turn_count \div 2, 4),
     urgency_level |-> IF Exceeds(scam_confidence, 7) THEN "high" ELSE "medium",
     has_financial_info |-> \E key \in {"bank_accounts", "upi_ids", "card_details"} :
                               HasItems(extracted_items, key),
     needs_more_info |-> \/ turn_count < 3
                         \/ ~\E key \in DOMAIN extracted_items :
                                HasItems(extracted_items, key)]

\* analyze_context(turn_count, scam_confidence, extracted_items)
analyze_context(turn_count, scam_confidence, extracted_items) ==
    LET has_financial_info == \E key \in {"bank_accounts", "upi_ids", "card_details"} :
                                  HasItems(extracted_items, key)
        stage == Min(turn_count \div 2, 4)
    IN  [stage |-> IF has_financial_info /\ turn_count > 1 THEN AdjustedStage(stage) ELSE stage,
         urgency_level |-> IF Exceeds(scam_confidence, 7) THEN "high" ELSE "medium",
         has_financial_info |-> has_financial_info,
         needs_more_info |-> \/ turn_count < 3
                             \/ ~\E key \in DOMAIN extracted_items :
                                    HasItems(extracted_items, key)]

\* a variant of select_strategy that looks at the stage only
select_by_stage(context) ==
    CASE context.stage = 0 -> "initial_engagement"
      [] context.stage = 1 -> "playing_dumb"
      [] context.stage = 2 -> "seeking_assurance"
      [] context.stage = 3 -> "extraction_phase"
      [] OTHER -> "delaying_tactics"

\* select_strategy(context)
select_strategy(context) ==
    CASE context.stage = 0 -> "initial_engagement"
      [] context.stage = 1 -> "playing_dumb"
      [] context.stage = 2 -> IF context.urgency_level = "high"
                              THEN "seeking_assurance" ELSE "playing_dumb"
      [] context.stage = 3 -> IF context.has_financial_info
                              THEN "extraction_phase" ELSE "seeking_assurance"
      [] OTHER -> "delaying_tactics"

\* the modifiers generate_response chooses from
ModifierKind(context, turn_count) ==
    IF context.urgency_level = "high" THEN "concerned"
    ELSE IF turn_count < 2 THEN "confused" ELSE "agreeable"

\* missing_items: the names of the items of the keys that are absent or empty
missing_items(extracted_intelligence) ==
    LET missing == SelectSeq(missing_item_names,
                             LAMBDA m : ~HasItems(extracted_intelligence, m.key))
    IN  [i \in DOMAIN missing |-> missing[i].item]

\* the outcomes of the random calls of one generate_response call: the indices
\* random.choice picks and whether random.random() is below its threshold
RandomOutcomes ==
    [base : 1..Len(response_strategies.initial_engagement.responses),
     modifier : 1..Len(modifiers.concerned), filler : 0..Len(fillers),
     prompt : 0..Len(missing_item_names), urgency : 0..Len(urgency_phrases)]

\* a variant of the concatenation that keeps neither part
Bare(modifier, base_response) == <<>>

\* response = modifier + base_response
Based(modifier, base_response) == <<modifier, base_response>>

\* response[:497] + "..." if len(response) > 500 else response
Ensured(parts) ==
    IF Length(parts) > 500
    THEN [parts |-> parts, kept |-> 497, suffix |-> "...", length |-> 497 + StrLen["..."]]
    ELSE [parts |-> parts, kept |-> Length(parts), suffix |-> "", length |-> Length(parts)]

\* generate_response(turn_count, scam_confidence, extracted_intelligence), with the
\* outcomes random of its random calls: filler, prompt and urgency are 0 when
\* random.random() is not below 0.3, 0.5 and 0.4, else the index chosen (prompt
\* is taken modulo the number of missing items)
generate_response(turn_count, scam_confidence, extracted_intelligence, random) ==
    LET context == analyze_context(turn_count, scam_confidence, extracted_intelligence)
        strategy == select_strategy(context)
        base_response == response_strategies[strategy].responses[random.base]
        modifier == modifiers[ModifierKind(context, turn_count)][random.modifier]
        missing == missing_items(extracted_intelligence)
        filled == Based(modifier, base_response)
                    \o (IF random.filler > 0 THEN <<" ", fillers[random.filler]>> ELSE <<>>)
        prompted == filled
                    \o (IF strategy = "extraction_phase" /\ missing # <<>> /\ random.prompt > 0
                        THEN <<" What's the ",
                               missing[((random.prompt - 1) % Len(missing)) + 1], "?">>
                        ELSE <<>>)
        urged == prompted
                    \o (IF Exceeds(scam_confidence, 8) /\ random.urgency > 0
                        THEN <<" ", urgency_phrases[random.urgency]>> ELSE <<>>)
    IN  [context |-> context, strategy |-> strategy, response |-> Ensured(urged)]

(***************************************************************************)
(* The /honeypot endpoint of the service (app/main.py).                    *)
(***************************************************************************)
\* the agent_reply literals of main.py: of create_guaranteed_response, for a
\* message that is no scam, of the three fallbacks by confidence, and for an
\* empty reply
replies ==
    [guaranteed |->
        "I understand your concern about the urgent message. This appears to be a potential scam attempt. Please do not share any personal or financial information, and contact your bank directly using official channels.",
     legitimate |->
        "Thank you for your message. I've received your communication and will respond appropriately.",
     high |->
        "I understand this is an urgent matter. However, I need to verify your identity first. Could you please provide your customer ID or registered mobile number?",
     medium |->
        "Thank you for the information. Let me check the status of your account. Could you clarify which bank you're referring to?",
     low |->
        "I've received your message. Please provide more details so I can assist you better.",
     empty |->
        "Thank you for contacting me. This appears to be a potential security concern. Please contact your bank's official customer service for verification."]

\* JSON values: a string (as a text), a number, null, and a dict and a list with
\* their items in order
JStr(t) == [type |-> "str", text |-> t]

JNum(n) == [type |-> "int", n |-> n]

JNull == [type |-> "null"]

JDict(items) == [type |-> "dict", items |-> items]

JList(items) == [type |-> "list", items |-> items]

Field(key, value) == [key |-> key, value |-> value]

\* a request body that json.loads rejects (or that is empty), as its text
Raw(t) == [kind |-> "text", text |-> t]

\* a request body that is the JSON document data
Json(data) == [kind |-> "json", data |-> data]

\* s.strip()
Strip(t) ==
    IF Words(t) = {} THEN <<>>
    ELSE SubSeq(t, CHOOSE i \in Words(t) : \A j \in Words(t) : i <= j,
                   CHOOSE i \in Words(t) : \A j \in Words(t) : i >= j)

RECURSIVE Join(_)
\* the Python string of a text, " ".join(tokens)
Join(t) ==
    IF t = <<>> THEN ""
    ELSE IF Len(t) = 1 THEN t[1] ELSE t[1] \o " " \o Join(Tail(t))

\* bool(value)
Truthy(value) ==
    CASE value.type = "str" -> value.text # <<>> /\ value.text # <<"">>
      [] value.type = "int" -> value.n # 0
      [] value.type = "null" -> FALSE
      [] OTHER -> value.items # <<>>

\* str(value), for a string, a number and None
Str(value) ==
    CASE value.type = "str" -> value.text
      [] value.type = "int" -> <<ToString(value.n)>>
      [] value.type = "null" -> <<"None">>

\* field in data, for a dict
HasKey(data, key) == \E i \in DOMAIN data.items : data.items[i].key = key

\* data[key]
Item(data, key) == data.items[CHOOSE i \in DOMAIN data.items : data.items[i].key = key].value

\* data.get(key)
Get(data, key) == IF HasKey(data, key) THEN Item(data, key) ELSE JNull

\* the first element of a sequence that satisfies Test, or none
FirstThat(s, Test(_), none) ==
    LET hits == {i \in DOMAIN s : Test(s[i])}
    IN  IF hits = {} THEN none ELSE s[CHOOSE i \in hits : \A j \in hits : i <= j]

direct_fields == <<"message", "text", "input", "query", "content", "prompt">>

\* a string value that is not blank
IsText(value) == value.type = "str" /\ Strip(value.text) # <<>>

\* message_text as the five priorities of translate_any_to_elite find it in data:
\* the first of the five candidates that is not empty (a priority is tried only
\* while message_text is empty, and none depends on an earlier one)
MessageText(data) ==
    LET isdict == data.type = "dict"
        usable(field) == /\ HasKey(data, field)
                         /\ Truthy(Item(data, field))
                         /\ Strip(Str(Item(data, field))) # <<>>
        anystring(item) == IsText(item.value)
        nonempty(t) == t # <<>>
        candidates ==
            << \* priority 1: direct fields
               IF isdict /\ \E i \in DOMAIN direct_fields : usable(direct_fields[i])
               THEN Strip(Str(Item(data, FirstThat(direct_fields, usable, ""))))
               ELSE <<>>,
               \* priority 2: nested incoming_message
               IF isdict /\ HasKey(data, "incoming_message")
               THEN IF Item(data, "incoming_message").type = "dict"
                       /\ HasKey(Item(data, "incoming_message"), "text")
                    THEN Strip(Str(Item(Item(data, "incoming_message"), "text")))
                    ELSE IF Item(data, "incoming_message").type = "str"
                         THEN Strip(Item(data, "incoming_message").text) ELSE <<>>
               ELSE <<>>,
               \* priority 3: any string value in the dict
               IF isdict /\ \E i \in DOMAIN data.items : anystring(data.items[i])
               THEN Strip(FirstThat(data.items, anystring, Field("", JNull)).value.text)
               ELSE <<>>,
               \* priority 4: data is a string
               IF data.type = "str" THEN Strip(data.text) ELSE <<>>,
               \* priority 5: data is a list with strings
               IF data.type = "list" /\ \E i \in DOMAIN data.items : IsText(data.items[i])
               THEN Strip(FirstThat(data.items, IsText, JNull).text)
               ELSE <<>> >>
    IN  FirstThat(candidates, nonempty, <<>>)

\* a or b or c for the values of three keys of data
FirstTruthy(data, keys) ==
    IF Truthy(Get(data, keys[1])) THEN Get(data, keys[1])
    ELSE IF Truthy(Get(data, keys[2])) THEN Get(data, keys[2])
    ELSE Get(data, keys[3])

\* the default elite format, created in the second second
elite_format(second) ==
    [conversation_id |-> "elite_" \o ToString(second),
     conversation_history |-> <<>>,
     incoming_message |-> [sender |-> "unknown", text |-> PDefault]]

\* the ultimate fallback of translate_any_to_elite
fallback_format(second) ==
    [conversation_id |-> "fallback_" \o ToString(second),
     conversation_history |-> <<>>,
     incoming_message |-> [sender |-> "scammer", text |-> PFallback]]

\* UniversalTranslator.translate_any_to_elite(raw_request), in the second second;
\* fault: an exception is raised in its body
translate_any_to_elite(raw_request, second, fault) ==
    IF fault THEN fallback_format(second)
    ELSE IF raw_request.kind = "text"
    THEN IF Strip(raw_request.text) = <<>> THEN elite_format(second)
         ELSE [elite_format(second) EXCEPT !.incoming_message.text = Strip(raw_request.text)]
    ELSE LET data == raw_request.data
             message_text == MessageText(data)
             conv_id == FirstTruthy(data, <<"conversation_id", "session_id", "id">>)
             sender == FirstTruthy(data, <<"sender", "from", "user">>)
         IN  IF message_text = <<>> THEN elite_format(second)
             ELSE [elite_format(second) EXCEPT
                      !.incoming_message.text = message_text,
                      !.conversation_id =
                          IF data.type = "dict" /\ Truthy(conv_id) THEN Join(Str(conv_id)) ELSE @,
                      !.incoming_message.sender =
                          IF data.type = "dict" /\ Truthy(sender) THEN Join(Str(sender)) ELSE @]

\* a reply that is the one literal s
Literal(s) == Ensured(<<s>>)

\* UniversalTranslator.create_guaranteed_response(), with the error note of the
\* handler
create_guaranteed_response(second, error) ==
    [scam_detected |-> TRUE,
     agent_reply |-> Literal(replies.guaranteed),
     extracted_intelligence |-> [bank_accounts |-> <<>>, upi_ids |-> <<>>, urls |-> <<>>],
     engagement_metrics |-> [turns |-> 1, scam_likelihood |-> <<92, 100>>,
                             agent_confidence |-> <<95, 100>>],
     status |-> "success",
     conversation_id |-> "guaranteed_" \o ToString(second),
     error_note |-> error]

\* a variant of the absolute fallback that reports the fault to the caller
Propagated(second, error) ==
    [create_guaranteed_response(second, error) EXCEPT !.status = "error"]

\* the absolute fallback of the handler: except Exception as e
OnCriticalError(second, error) == create_guaranteed_response(second, error)

scam_keywords ==
    {"urgent", "suspend", "block", "payment", "verify", "click", "link", "upi", "account", "bank"}

\* fallback 1 of the detection: simple keyword detection
FallbackDetection(message_text) ==
    LET keyword_count == Cardinality({keyword \in scam_keywords :
                                         Contains(message_text, keyword)})
        scam_confidence == <<Min(30 + keyword_count * 10, 95), 100>>
    IN  [scam_detected |-> Exceeds(scam_confidence, 5), scam_confidence |-> scam_confidence]

\* the smart fallback of the agent reply, by scam confidence
FallbackReply(scam_confidence) ==
    IF Exceeds(scam_confidence, 7) THEN Literal(replies.high)
    ELSE IF Exceeds(scam_confidence, 4) THEN Literal(replies.medium)
    ELSE Literal(replies.low)

\* ExtractedItem(...) for the items of one group of extracted_raw
Items(extracted_raw, key, item_type) ==
    LET items == Lookup(extracted_raw, key, <<>>)
    IN  [i \in DOMAIN items |-> ExtractedItem(items[i], item_type)]

\* elite_honeypot_universal from step 3 on, for the translated request
\* elite_request: what it leaves in the memory and what it returns.  faults are
\* the steps that raise an exception, second is time.time(), random the outcomes
\* of the random calls of the orchestrator (agent is what its call returns, if it
\* is called); analysed[t] holds detect_scam(t) and
\* extract_all(t).
elite_honeypot_universal(elite_request, faults, second, random, mem, now, analysed) ==
    LET conversation_id == elite_request.conversation_id
        message_text == elite_request.incoming_message.text
        updated == update_turns(get_conversation(mem, conversation_id, now),
                                conversation_id, now + 1)
        context == MemoryEntry(updated, conversation_id)
        detected == IF "classifier" \in faults THEN FallbackDetection(message_text)
                    ELSE [scam_detected |-> analysed[message_text].detection.is_scam,
                          scam_confidence |-> analysed[message_text].detection.confidence]
        scam_detected == detected.scam_detected
        scam_confidence == detected.scam_confidence
        extracted_raw == IF "extractor" \in faults THEN EmptyResults
                         ELSE analysed[message_text].extraction
        called == scam_detected /\ "orchestrator" \notin faults
        generated == IF scam_detected
                     THEN IF "orchestrator" \in faults THEN FallbackReply(scam_confidence)
                          ELSE generate_response(context.turns, scam_confidence,
                                                 extracted_raw, random).response
                     ELSE Literal(replies.legitimate)
        agent_reply == IF generated.length = 0 THEN Literal(replies.empty) ELSE generated
        processed == "items" \notin faults
        built == [scam_detected |-> scam_detected,
                  agent_reply |-> agent_reply,
                  extracted_intelligence |->
                      [bank_accounts |-> IF processed
                                         THEN Items(extracted_raw, "bank_accounts", "bank_account")
                                         ELSE <<>>,
                       upi_ids |-> IF processed THEN Items(extracted_raw, "upi_ids", "upi_id")
                                   ELSE <<>>,
                       urls |-> IF processed THEN Items(extracted_raw, "urls", "url") ELSE <<>>],
                  engagement_metrics |->
                      [turns |-> context.turns, scam_likelihood |-> scam_confidence,
                       agent_confidence |-> IF scam_detected THEN <<9, 10>> ELSE <<4, 10>>],
                  status |-> "success",
                  conversation_id |-> conversation_id]
    IN  [memory |-> updated,
         agent |-> IF called
                   THEN generate_response(context.turns, scam_confidence, extracted_raw, random)
                   ELSE NoResult,
         response |-> IF "response" \in faults
                      THEN OnCriticalError(second, "Universal endpoint failed") ELSE built]
(***************************************************************************)
(* Specifications.                                                         *)
(***************************************************************************)
\* the phrases the classifier is run on
DetectPhrases ==
    {PBlank, PGreeting, PLottery, PClaim, PSuspend, PPay, PMoney, PShort, PAlarm, PCall}

\* the phrases the extractor is run on
ExtractPhrases ==
    {PBlank, PGreeting, PSuspend, PPay, PAccNo, PBankAcc, PLink, PClick, PShort, PSite, PEmail,
     PCall}

\* all texts of at most MaxPhrases phrases of P
TextsOf(P) == {Flatten(ps) : ps \in UNION {[1..n -> P] : n \in 0..MaxPhrases}}

\* the phrases both are run on
TextPhrases == {PBlank, PGreeting, PSuspend, PPay, PShort}

\* the service after start-up: an empty memory of capacity max_size, no call made,
\* no request in flight
InitService(max_size) ==
    /\ memory = ConversationMemory(max_size)
    /\ calls = <<>>
    /\ agent = NoResult
    /\ requests = <<>>
    /\ heap = <<>>
    /\ store = <<>>

\* the state before any call, with t the text to be analysed
InitWith(t) ==
    /\ text = t
    /\ detection = NoResult
    /\ extraction = NoResult
    /\ analyses = <<>>
    /\ conversations = <<>>
    /\ callbacks = <<>>
    /\ response = NoResult
    /\ InitService(MaxConversations)

\* scam_detector.detect_scam(text)
DetectScam ==
    /\ detection = NoResult
    /\ detection' = detect_scam(text)
    /\ UNCHANGED <<text, extraction, analyses, conversations, callbacks, response>>
    /\ UNCHANGED serviceVars

\* intelligence_extractor.extract_all(text)
ExtractAll ==
    /\ extraction = NoResult
    /\ extraction' = extract_all(text)
    /\ UNCHANGED <<text, detection, analyses, conversations, callbacks, response>>
    /\ UNCHANGED serviceVars

\* the classifier on every text of DetectPhrases
SpecDetect == (\E t \in TextsOf(DetectPhrases) : InitWith(t)) /\ [][DetectScam]_vars

\* the extractor on every text of ExtractPhrases
SpecExtract == (\E t \in TextsOf(ExtractPhrases) : InitWith(t)) /\ [][ExtractAll]_vars

NextText == DetectScam \/ ExtractAll

\* the classifier and the extractor on every text of TextPhrases
SpecText == (\E t \in TextsOf(TextPhrases) : InitWith(t)) /\ [][NextText]_vars

(***************************************************************************)
(* Sessions.                                                               *)
(***************************************************************************)
SessionIds == {"s1", "s2"}

\* the conversationHistory of a request: nothing, or the reply sent before
Histories == {<<>>, <<Message("user", PGreeting)>>}

\* the messages stored over all sessions
TotalMessages == SumOver([sid \in DOMAIN conversations |-> Len(conversations[sid].messages)],
                         DOMAIN conversations)

\* the state after construction
Init ==
    /\ text = <<>>
    /\ detection = NoResult
    /\ extraction = NoResult
    /\ analyses = TurnAnalyses
    /\ conversations = <<>>
    /\ callbacks = <<>>
    /\ response = NoResult
    /\ InitService(MaxConversations)

Next ==
    \E session_id \in SessionIds, t \in TurnTexts, history \in Histories :
        /\ TotalMessages + Len(history) + 1 <= MaxMessages
        /\ ProcessGuviRequest(session_id, Message("scammer", t), history)

\* requests for any session, in any order
Spec == Init /\ [][Next]_vars

\* the turns classified as scams
ScamTexts == {t \in TurnTexts : DetectedFor(t).is_scam}

NextScenarioD ==
    \E t \in ScamTexts :
        /\ TotalMessages < MaxTurns
        /\ ProcessGuviRequest("s1", Message("scammer", t), <<>>)

\* one session that receives scam-classified turns only
SpecScenarioD == Init /\ [][NextScenarioD]_vars

(***************************************************************************)
(* The final callback on stored sessions.                                  *)
(***************************************************************************)
\* the messages of the sessions deleted after a delivery
DeliveredMessages ==
    SumOver([k \in DOMAIN callbacks |->
                IF callbacks[k].outcome = "200"
                THEN callbacks[k].payload.totalMessagesExchanged ELSE 0],
            DOMAIN callbacks)

\* a scam-classified turn of session s1
ScamTurn ==
    \E t \in ScamTexts :
        /\ TotalMessages + DeliveredMessages < MaxMessages
        /\ ProcessGuviRequest("s1", Message("scammer", t), <<>>)

\* self._send_final_callback(state) for a stored session that is engaged; the POST
\* ends with any of PostOutcomes
FinalCallback ==
    \E session_id \in DOMAIN conversations, outcome \in PostOutcomes :
        /\ Len(callbacks) < MaxCallbacks
        /\ conversations[session_id].scam_detected
        /\ SendFinalCallback(conversations[session_id], outcome)
        /\ UNCHANGED <<text, detection, extraction, analyses, response>>
        /\ UNCHANGED serviceVars

NextCallback == ScamTurn \/ FinalCallback

\* scam turns of one session, and deliveries of its final result
SpecCallback == Init /\ [][NextCallback]_vars

(***************************************************************************)
(* Calls of the conversation memory.                                       *)
(***************************************************************************)
ConversationIds == {"c1", "c2", "c3"}

\* the time of the next call
Now == Len(calls) + 1

\* conversation_memory.get_conversation(conversation_id)
GetConversation(conversation_id) ==
    /\ Len(calls) < MaxCalls
    /\ memory' = get_conversation(memory, conversation_id, Now)
    /\ calls' = Append(calls, [op |-> "get_conversation", id |-> conversation_id])
    /\ UNCHANGED <<text, detection, extraction, analyses, conversations, callbacks, response>>
    /\ UNCHANGED <<agent, requests, heap, store>>

\* conversation_memory.update_turns(conversation_id)
UpdateTurns(conversation_id) ==
    /\ Len(calls) < MaxCalls
    /\ memory' = update_turns(memory, conversation_id, Now)
    /\ calls' = Append(calls, [op |-> "update_turns", id |-> conversation_id])
    /\ UNCHANGED <<text, detection, extraction, analyses, conversations, callbacks, response>>
    /\ UNCHANGED <<agent, requests, heap, store>>

\* a memory of any capacity up to MaxConversations, before any call
InitMemory ==
    /\ text = <<>>
    /\ detection = NoResult
    /\ extraction = NoResult
    /\ analyses = <<>>
    /\ conversations = <<>>
    /\ callbacks = <<>>
    /\ response = NoResult
    /\ \E max_size \in 1..MaxConversations : InitService(max_size)

NextMemory ==
    \E conversation_id \in ConversationIds :
        \/ GetConversation(conversation_id)
        \/ UpdateTurns(conversation_id)

\* any sequence of get_conversation and update_turns calls
SpecMemory == InitMemory /\ [][NextMemory]_vars

(***************************************************************************)
(* Calls of the orchestrator.                                              *)
(***************************************************************************)
\* the scam confidences the orchestrator is called with: 0.5, 0.7, 0.75, 0.8, 0.9
Confidences == {<<1, 2>>, <<7, 10>>, <<3, 4>>, <<4, 5>>, <<9, 10>>}

\* an extracted item of a value
Found(value) == <<[value |-> value, confidence |-> Hundredths(90)]>>

\* the extracted intelligence the orchestrator is called with: no dict entry at
\* all, the extractor's groups all empty, and groups with an item
Intelligences ==
    {<<>>,
     EmptyResults,
     [EmptyResults EXCEPT !.urls = Found("http://bit.ly/x")],
     [EmptyResults EXCEPT !.bank_accounts = Found("123456789012")],
     [EmptyResults EXCEPT !.upi_ids = Found("fraud@ybl"), !.urls = Found("http://bit.ly/x")],
     [EmptyResults EXCEPT !.card_details = Found("1234567890123456")],
     [EmptyResults EXCEPT !.bank_accounts = Found("123456789012"),
                          !.upi_ids = Found("fraud@ybl"), !.urls = Found("http://bit.ly/x")]}

\* the arguments of a call, nothing computed yet
Call(turn_count, scam_confidence, extracted_intelligence) ==
    [turn_count |-> turn_count, scam_confidence |-> scam_confidence,
     extracted_intelligence |-> extracted_intelligence,
     context |-> NoResult, strategy |-> "", response |-> NoResult]

\* the first call of a conversation, with any confidence and intelligence
InitAgent ==
    /\ text = <<>>
    /\ detection = NoResult
    /\ extraction = NoResult
    /\ analyses = <<>>
    /\ conversations = <<>>
    /\ callbacks = <<>>
    /\ response = NoResult
    /\ memory = ConversationMemory(MaxConversations)
    /\ calls = <<>>
    /\ requests = <<>>
    /\ heap = <<>>
    /\ store = <<>>
    /\ \E scam_confidence \in Confidences, extracted_intelligence \in Intelligences :
          agent = Call(0, scam_confidence, extracted_intelligence)

\* agent_orchestrator.generate_response(turn_count, scam_confidence,
\* extracted_intelligence)
GenerateResponse ==
    /\ agent.response = NoResult
    /\ \E random \in RandomOutcomes :
          LET generated == generate_response(agent.turn_count, agent.scam_confidence,
                                             agent.extracted_intelligence, random)
          IN  agent' = [agent EXCEPT !.context = generated.context,
                                     !.strategy = generated.strategy,
                                     !.response = generated.response]
    /\ UNCHANGED <<text, detection, extraction, analyses, conversations, callbacks, response>>
    /\ UNCHANGED <<memory, calls, requests, heap, store>>

\* the next call of the conversation: one more turn, the same confidence and
\* intelligence; what the last call computed stays until this one returns
NextTurn ==
    /\ agent.response # NoResult
    /\ agent.turn_count < MaxTurnCount
    /\ agent' = [agent EXCEPT !.turn_count = @ + 1, !.response = NoResult]
    /\ UNCHANGED <<text, detection, extraction, analyses, conversations, callbacks, response>>
    /\ UNCHANGED <<memory, calls, requests, heap, store>>

NextAgent == GenerateResponse \/ NextTurn

\* the calls of the orchestrator over the turns of a conversation
SpecAgent == InitAgent /\ [][NextAgent]_vars

(***************************************************************************)
(* Requests to the /honeypot endpoint.                                     *)
(***************************************************************************)
\* an empty body
BodyEmpty ==
    Raw(<<>>)

\* a body of one space
BodyBlank ==
    Raw(<<"", "">>)

\* plain text
BodyPlain ==
    Raw(PLottery)

\* malformed JSON
BodyMalformed ==
    Raw(PInvalid)

\* {"message": text}
BodyMessage ==
    Json(JDict(<<Field("message", JStr(TScam))>>))

\* {}
BodyEmptyDict ==
    Json(JDict(<<>>))

\* test 1 of test_hackathon.py, with the text of PLottery
BodyHackathon ==
    Json(JDict(<<Field("conversation_id", JStr(<<"hackathon_test_1">>)), Field("conversation_history", JList(<<>>)), Field("incoming_message", JDict(<<Field("sender", JStr(<<"scammer">>)), Field("text", JStr(PLottery))>>)), Field("metadata", JDict(<<>>))>>))

\* test 2 of test_hackathon.py: the text is empty
BodyEmptyFields ==
    Json(JDict(<<Field("conversation_id", JStr(PTestId)), Field("conversation_history", JList(<<>>)), Field("incoming_message", JDict(<<Field("sender", JStr(<<>>)), Field("text", JStr(<<>>))>>)), Field("metadata", JDict(<<>>))>>))

\* test 3 of test_hackathon.py: no text field
BodyMissingText ==
    Json(JDict(<<Field("conversation_id", JStr(PTestId)), Field("incoming_message", JDict(<<Field("sender", JStr(<<"test">>))>>))>>))

\* an empty text and no other string
BodyNoText ==
    Json(JDict(<<Field("incoming_message", JDict(<<Field("sender", JStr(<<>>)), Field("text", JStr(<<>>))>>))>>))

\* a null text
BodyNullText ==
    Json(JDict(<<Field("incoming_message", JDict(<<Field("text", JNull)>>))>>))

\* a JSON string
BodyString ==
    Json(JStr(PGreeting))

\* a JSON list
BodyList ==
    Json(JList(<<JStr(<<>>), JStr(PLink)>>))

\* a JSON number
BodyNumber ==
    Json(JNum(5))

\* blank direct fields before a number, and a session id
BodyFields ==
    Json(JDict(<<Field("message", JStr(<<>>)), Field("text", JStr(<<"", "">>)), Field("input", JNum(5)), Field("session_id", JStr(<<"s1">>)), Field("from", JStr(<<"x">>))>>))

Bodies ==
    {BodyEmpty,
     BodyBlank,
     BodyPlain,
     BodyMalformed,
     BodyMessage,
     BodyEmptyDict,
     BodyHackathon,
     BodyEmptyFields,
     BodyMissingText,
     BodyNoText,
     BodyNullText,
     BodyString,
     BodyList,
     BodyNumber,
     BodyFields}

\* the steps of the handler that may raise an exception
FaultySteps == {"translator", "classifier", "extractor", "orchestrator", "items", "response"}

\* the faults of one request: none, one step, the four of the core, or all
Faults ==
    {{}} \cup {{step} : step \in FaultySteps}
         \cup {{"classifier", "extractor", "orchestrator", "response"}, FaultySteps}

\* the texts the request bodies are translated to
HoneypotTexts ==
    {translate_any_to_elite(body, 1, fault).incoming_message.text :
        body \in Bodies, fault \in BOOLEAN}

\* the random outcomes of the orchestrator taken for a request: nothing appended,
\* and everything appended
SomeOutcomes ==
    {[base |-> 1, modifier |-> 1, filler |-> 0, prompt |-> 0, urgency |-> 0],
     [base |-> Len(response_strategies.initial_engagement.responses),
      modifier |-> Len(modifiers.concerned), filler |-> Len(fillers),
      prompt |-> Len(missing_item_names), urgency |-> Len(urgency_phrases)]}

\* time.time(), in seconds, as a request is processed
Seconds == 1..MaxConversations

\* the service after start-up, the classifier and the extractor tabulated for the
\* texts of the requests
InitHoneypot ==
    /\ text = <<>>
    /\ detection = NoResult
    /\ extraction = NoResult
    /\ analyses = [t \in HoneypotTexts |->
                      [detection |-> detect_scam(t), extraction |-> extract_all(t)]]
    /\ conversations = <<>>
    /\ callbacks = <<>>
    /\ response = NoResult
    /\ InitService(MaxConversations)

\* POST /honeypot with the body raw_body: elite_honeypot_universal, steps 1 to 10
HoneypotRequest ==
    \E raw_body \in Bodies, faults \in Faults, second \in Seconds, random \in SomeOutcomes :
        /\ Len(calls) + 2 <= MaxCalls
        /\ \E elite_request \in {translate_any_to_elite(raw_body, second,
                                                        "translator" \in faults)} :
           \E done \in {elite_honeypot_universal(elite_request, faults, second, random,
                                                 memory, Now, analyses)} :
               /\ memory' = done.memory
               /\ calls' = calls \o <<[op |-> "get_conversation",
                                       id |-> elite_request.conversation_id],
                                      [op |-> "update_turns",
                                       id |-> elite_request.conversation_id]>>
               /\ response' = done.response
               /\ agent' = done.agent
               /\ requests' = Append(requests, [raw_body |-> raw_body, faults |-> faults,
                                                elite_request |-> elite_request])
        /\ UNCHANGED <<text, detection, extraction, analyses, conversations, callbacks>>
        /\ UNCHANGED <<heap, store>>

\* requests to /honeypot, one after the other
SpecHoneypot == InitHoneypot /\ [][HoneypotRequest]_vars

(***************************************************************************)
(* Concurrent requests for one session.  process_guvi_request is a plain   *)
(* function that takes no lock, so calls made from several threads         *)
(* interleave between its statements.                                      *)
(***************************************************************************)
\* the session the concurrent requests are for
Session == "s1"

\* the texts of the concurrent requests
ConcurrentTexts == {TGreeting, TLink, TScam}

\* a call of process_guvi_request before its first statement: its request, and
\* its locals present (session_id in self.conversations), state (the object
\* referred to, an index of heap) and all_messages
Request(message) ==
    [pc |-> "start", message |-> message, present |-> FALSE, state |-> 0,
     all_messages |-> <<>>, outcome |-> NoResult]

\* n calls for the session, each with an empty conversationHistory, no
\* conversation stored yet
InitConcurrent ==
    /\ text = <<>>
    /\ detection = NoResult
    /\ extraction = NoResult
    /\ analyses = TurnAnalyses
    /\ conversations = <<>>
    /\ callbacks = <<>>
    /\ response = NoResult
    /\ memory = ConversationMemory(MaxConversations)
    /\ calls = <<>>
    /\ agent = NoResult
    /\ \E n \in 1..MaxRequests :
          requests \in [1..n -> {Request(Message("scammer", t)) : t \in ConcurrentTexts}]
    /\ heap = <<>>
    /\ store = <<>>

\* what a step of a request leaves alone
OthersUnchanged ==
    UNCHANGED <<text, detection, extraction, analyses, conversations, callbacks,
                response, memory, calls, agent>>

\* if session_id not in self.conversations:
TestMembership ==
    \E r \in DOMAIN requests :
        /\ requests[r].pc = "start"
        /\ requests' = [requests EXCEPT ![r].present = Session \in DOMAIN store,
                                        ![r].pc = IF Session \in DOMAIN store
                                                  THEN "take" ELSE "create"]
        /\ UNCHANGED <<heap, store>>
        /\ OthersUnchanged

\* self.conversations[session_id] = ConversationState(...)
CreateState ==
    \E r \in DOMAIN requests :
        /\ requests[r].pc = "create"
        /\ heap' = Append(heap, ConversationState(Session))
        /\ store' = [sid \in {Session} |-> Len(heap) + 1]
        /\ requests' = [requests EXCEPT ![r].pc = "take"]
        /\ OthersUnchanged

\* state = self.conversations[session_id]
TakeState ==
    \E r \in DOMAIN requests :
        /\ requests[r].pc = "take"
        /\ requests' = [requests EXCEPT ![r].state = store[Session], ![r].pc = "read"]
        /\ UNCHANGED <<heap, store>>
        /\ OthersUnchanged

\* all_messages = state.messages + request.conversationHistory + [request.message]
ReadMessages ==
    \E r \in DOMAIN requests :
        /\ requests[r].pc = "read"
        /\ requests' = [requests EXCEPT
                           ![r].all_messages = heap[requests[r].state].messages
                                                   \o <<requests[r].message>>,
                           ![r].pc = "write"]
        /\ UNCHANGED <<heap, store>>
        /\ OthersUnchanged

\* state.messages = all_messages
WriteMessages ==
    \E r \in DOMAIN requests :
        /\ requests[r].pc = "write"
        /\ heap' = [heap EXCEPT ![requests[r].state].messages = requests[r].all_messages]
        /\ requests' = [requests EXCEPT ![r].pc = "rest"]
        /\ UNCHANGED store
        /\ OthersUnchanged

\* the rest of process_guvi_request, from the detection on, taken as one step:
\* the updates of scam_detected and scam_confidence, the appends to the
\* intelligence lists, and the reply.  (The final callback is not reached: the
\* call of generate_response does not bind.)
FinishRequest ==
    \E r \in DOMAIN requests :
        LET state == heap[requests[r].state]
            result == DetectedFor(requests[r].message.text)
            updated == [state EXCEPT
                           !.scam_detected = ScamDetectedAfter(@, result.confidence),
                           !.scam_confidence = ScamConfidenceAfter(state, result.confidence),
                           !.extracted_intelligence =
                               IntelligenceAfter(@, ExtractedFor(requests[r].message.text))]
            binds == Binds(generate_response_parameters, generate_response_arguments)
        IN  /\ requests[r].pc = "rest"
            /\ heap' = [heap EXCEPT ![requests[r].state] =
                           IF updated.scam_detected /\ binds
                           THEN [updated EXCEPT !.engagement_level = @ + 1] ELSE updated]
            /\ requests' = [requests EXCEPT
                               ![r].pc = "done",
                               ![r].outcome = IF updated.scam_detected /\ ~binds
                                              THEN Raised(Session, "TypeError")
                                              ELSE Returned(Session, "reply")]
            /\ UNCHANGED store
            /\ OthersUnchanged

NextConcurrent ==
    \/ TestMembership
    \/ CreateState
    \/ TakeState
    \/ ReadMessages
    \/ WriteMessages
    \/ FinishRequest

\* up to MaxRequests threads in process_guvi_request for one session, interleaved
\* in every way
SpecConcurrent == InitConcurrent /\ [][NextConcurrent]_vars

(***************************************************************************)
(* Properties of the classifier and the extractor.                         *)
(***************************************************************************)
\* the text is empty or holds nothing but whitespace
IsBlank(t) == \A i \in 1..Len(t) : t[i] = ""

\* a classifier result with an analysis report
Analysed == detection # NoResult /\ DOMAIN detection.analysis # {}

\* C1: whatever the text, the confidence detect_scam returns lies in [0, 1],
\* the boost for critical combinations included.
C1_ConfidenceInUnitInterval ==
    detection # NoResult =>
        /\ detection.confidence[2] > 0
        /\ detection.confidence[1] >= 0
        /\ detection.confidence[1] <= detection.confidence[2]

\* C1's case: a critical combination boosted a sum above 0.8, and the result is 1.0
C1_BoostReachesOne ==
    /\ Analysed
    /\ HasCriticalCombination(detection.analysis.category_scores)
    /\ SumOver(detection.analysis.component_scores,
               DOMAIN detection.analysis.component_scores) * 5
           > detection.confidence[2] * 4
    /\ detection.confidence[1] = detection.confidence[2]

\* the threshold and the decision C2 states, for the text classified
ThresholdAsStated ==
    LET expected == IF analyze_financial_info(text) > 70 \/ calculate_pattern_score(text) > 8
                    THEN 35 ELSE 40
    IN  /\ "threshold_used" \in DOMAIN detection.analysis
        /\ detection.analysis.threshold_used = expected
        /\ detection.is_scam
             <=> detection.confidence[1] * 100 >= expected * detection.confidence[2]

\* C2, as stated: for every text, detect_scam reports threshold_used = 0.35 exactly
\* when financial_score > 0.7 or pattern_score > 0.8 and 0.4 otherwise, and is_scam
\* is (confidence >= threshold_used).
C2_ThresholdForEveryText == detection # NoResult => ThresholdAsStated

\* C2, amended: the same for every text of three or more characters once stripped;
\* a shorter text gets no report, hence no threshold_used.
C2_ThresholdWhenAnalysed ==
    detection # NoResult /\ ~IsBlank(text) /\ StrippedLen(text) >= 3 => ThresholdAsStated

\* C2's case: the lowered threshold decides: a confidence in [0.35, 0.4) is a scam
C2_LoweredThresholdDecides ==
    /\ Analysed
    /\ detection.analysis.threshold_used = 35
    /\ detection.is_scam
    /\ detection.confidence[1] * 100 < 40 * detection.confidence[2]

\* C3: for an empty or whitespace-only text detect_scam returns (false, 0.0, empty
\* analysis) and extract_all returns its six groups empty; neither raises.
C3_BlankTextYieldsNothing ==
    IsBlank(text) =>
        /\ detection # NoResult =>
              /\ detection.is_scam = FALSE
              /\ detection.confidence[1] = 0
              /\ DOMAIN detection.analysis = {}
        /\ extraction # NoResult =>
              /\ DOMAIN extraction = {"bank_accounts", "upi_ids", "urls",
                                      "phone_numbers", "emails", "card_details"}
              /\ \A key \in DOMAIN extraction : extraction[key] = <<>>

\* C3's case: both have returned for a text of whitespace only
C3_WhitespaceAnalysed ==
    /\ IsBlank(text) /\ Len(text) >= 2
    /\ detection # NoResult /\ extraction # NoResult

\* the values the extractors ps of a type match in t
ExtractorValues(t, pattern_type, ps) ==
    {it.value : it \in UNION {
        LET items == MatchItems(t, pattern_type, patterns[pattern_type][p].steps, 1,
                                Hundredths(patterns[pattern_type][p].conf))
        IN  {items[i] : i \in DOMAIN items} : p \in ps}}

\* the (one) item of a group has value v and a confidence of at least 0.9
OneItem(group, v) ==
    /\ Len(group) = 1
    /\ group[1].value = v
    /\ group[1].confidence >= Hundredths(90)

\* C4: for a text with one keyword-anchored bank account and an account / bank /
\* transfer / send context word, and one known-handle UPI id with a upi / pay /
\* send money / transfer context word, extract_all returns exactly one bank-account
\* item (the digits) and exactly one UPI item (the lower-cased handle), each with
\* confidence >= 0.9.  (The values of the extractors are the cleaned values: digits
\* only for a bank account, lower case for a UPI id.)
C4_ScenarioCItems ==
    LET accounts == ExtractorValues(text, "bank_account", DOMAIN patterns.bank_account)
        anchored == ExtractorValues(text, "bank_account", {1, 3, 4})
        upis     == ExtractorValues(text, "upi_id", DOMAIN patterns.upi_id)
        known    == ExtractorValues(text, "upi_id", {1})
    IN  /\ extraction # NoResult
        /\ Cardinality(accounts) = 1 /\ anchored = accounts
        /\ has_context(text, "bank_account")
        /\ Cardinality(upis) = 1 /\ known = upis
        /\ has_context(text, "upi_id")
        => /\ \E v \in accounts : OneItem(extraction.bank_accounts, v)
           /\ \E v \in upis : OneItem(extraction.upi_ids, v)

\* no group has two items of the same value
NoDuplicateValues ==
    \A key \in DOMAIN extraction :
        \A i, j \in DOMAIN extraction[key] :
            extraction[key][i].value = extraction[key][j].value => i = j

\* the bank-account values that two different extractors match in t
TwoFormAccounts(t) ==
    {v \in ExtractorValues(t, "bank_account", DOMAIN patterns.bank_account) :
        \E p, q \in DOMAIN patterns.bank_account :
            /\ p # q
            /\ v \in ExtractorValues(t, "bank_account", {p})
            /\ v \in ExtractorValues(t, "bank_account", {q})}

\* C5: a bank-account number that appears in two forms matched by different
\* extractors comes back as exactly one item, and no group ever holds two items of
\* the same value.
C5_OneItemPerValue ==
    extraction # NoResult =>
        /\ NoDuplicateValues
        /\ \A v \in TwoFormAccounts(text) :
              Cardinality({i \in DOMAIN extraction.bank_accounts :
                              extraction.bank_accounts[i].value = v}) = 1

\* C6: every group extract_all returns is in descending order of confidence, and
\* every item in it has a confidence of at least 0.6.
C6_SortedAndAboveMinimum ==
    extraction # NoResult =>
        \A key \in DOMAIN extraction :
            /\ \A i, j \in DOMAIN extraction[key] :
                  i < j => extraction[key][i].confidence >= extraction[key][j].confidence
            /\ \A i \in DOMAIN extraction[key] :
                  extraction[key][i].confidence * 10 >= 6 * ConfUnit

\* C6's case: a group whose items were appended in ascending order of confidence
C6_SortReorders ==
    /\ extraction # NoResult
    /\ \E key \in DOMAIN extraction :
          LET appended == Unique(Appended(text, key), {})
          IN  /\ Len(extraction[key]) >= 2
              /\ Len(appended) >= 2
              /\ appended[1].confidence < appended[2].confidence
              /\ extraction[key][1].confidence > extraction[key][2].confidence

\* C20: each of the six sub-scores detect_scam combines (keyword, pattern,
\* financial, url, phone, linguistic) is in [0, 1] before its weight is applied,
\* for every text: a weighted score lies between 0 and its weight (35, 25, 20, 10,
\* 5 and 5 hundredths).
C20_SubScoresInUnitInterval ==
    Analysed =>
        LET scores == detection.analysis.component_scores
            den == detection.confidence[2]
            weight == [keyword |-> 35, pattern |-> 25, financial |-> 20,
                       url |-> 10, phone |-> 5, linguistic |-> 5]
        IN  \A name \in DOMAIN weight :
                scores[name] >= 0 /\ scores[name] * 100 <= weight[name] * den

\* the distinct numbers the Indian phone pattern finds in t
DistinctNumbers(t) == UNION {Lookup(PhoneNumbers, t[i], {}) : i \in 1..Len(t)}

\* the phone score as C21 states it, in tenths
PhoneScoreAsStated(t) ==
    IF DistinctNumbers(t) = {} THEN 0
    ELSE IF Cardinality(DistinctNumbers(t)) >= 2 THEN 8
    ELSE IF \E c \in suspicious_contexts : Contains(t, c) THEN 7
    ELSE 4

\* C21: detect_phone_numbers returns 0 when no Indian-format number is found, 0.8
\* only when at least two distinct numbers appear, otherwise 0.7 when a contact
\* keyword is present and 0.4 when it is not; a text that repeats one and the same
\* number does not score 0.8.  (The phone component of the report is the phone
\* score times its weight 0.05.)
C21_PhoneScoreByDistinctNumbers ==
    Analysed =>
        detection.analysis.component_scores.phone
            = PhoneScoreAsStated(text) * 150 * detection.analysis.linguistic_features.n_words

(***************************************************************************)
(* Properties of the confidence of the extracted items.                    *)
(***************************************************************************)
\* the extractors <<type, index>> whose items are appended to a list of the results
FilingExtractors ==
    {e \in UNION {{<<ty, p>> : p \in DOMAIN patterns[ty]} : ty \in DOMAIN patterns} :
        ResultKey[e[1]] \in result_keys}

\* the declared confidence of an extractor
BaseConfidence(e) == Hundredths(patterns[e[1]][e[2]].conf)

\* the items an extractor appends for the text, in order
ItemsOf(t, e) == MatchItems(t, e[1], patterns[e[1]][e[2]].steps, 1, BaseConfidence(e))

\* C22: every item extract_all produces for a type whose context rule fails has
\* its extractor's declared confidence times 0.7, and every item whose context
\* rule passes (or whose type has no rule) has exactly the declared confidence,
\* however many matches the same extractor produced before it in the text.
C22_BaseOrBaseTimesSevenTenths ==
    extraction # NoResult /\ ~TooShortToExtract(text) =>
        \A e \in FilingExtractors :
            \A i \in DOMAIN ItemsOf(text, e) :
                ItemsOf(text, e)[i].confidence
                    = IF has_context(text, e[1]) THEN BaseConfidence(e)
                      ELSE Degrade(BaseConfidence(e))

\* the values returned in the list of a key
ReturnedValues(key) == {extraction[key][i].value : i \in DOMAIN extraction[key]}

\* C23: missing context never removes an item from the result of extract_all: a
\* value that passes cleaning and the false-positive filter, and would be returned
\* with the context keywords present (every declared confidence is 0.8 or more), is
\* returned too when they are absent.
C23_MissingContextKeepsValue ==
    extraction # NoResult /\ ~TooShortToExtract(text) =>
        \A e \in FilingExtractors :
            \A i \in DOMAIN ItemsOf(text, e) :
                ItemsOf(text, e)[i].value \in ReturnedValues(ResultKey[e[1]])

\* C24: when several extractors of one type match the same normalized value in a
\* text, the one item the deduplication keeps carries the highest confidence among
\* those matches.
C24_KeptItemHasHighestConfidence ==
    extraction # NoResult /\ ~TooShortToExtract(text) =>
        \A key \in result_keys :
            \A i \in DOMAIN extraction[key] :
                \A j \in DOMAIN Appended(text, key) :
                    Appended(text, key)[j].value = extraction[key][i].value
                        => Appended(text, key)[j].confidence <= extraction[key][i].confidence

(***************************************************************************)
(* Properties of the sessions.                                             *)
(***************************************************************************)
\* the session of the request processed last
Processed == response.session_id

\* C7: within a session's lifetime scam_detected is a one-way latch: once true it
\* is never false again, whatever the confidence of the later turns.
C7_ScamDetectedLatches ==
    [][\A sid \in DOMAIN conversations \cap DOMAIN conversations' :
          conversations[sid].scam_detected => conversations'[sid].scam_detected]_vars

\* C7's case: a session with scam_detected set has processed a turn that is not
\* above 0.7, and scam_detected is still set
C7_LowTurnAfterLatch ==
    /\ response # NoResult
    /\ Processed \in DOMAIN conversations
    /\ LET state == conversations[Processed]
           last == state.messages[Len(state.messages)]
       IN  /\ state.scam_detected
           /\ ~Exceeds(DetectedFor(last.text).confidence, 7)
           /\ \E i \in 1..(Len(state.messages) - 1) :
                 Exceeds(DetectedFor(state.messages[i].text).confidence, 7)

\* C8: engagement_level never decreases; a processed turn adds exactly 1 to it when
\* the session is ENGAGED (scam_detected) as the turn is processed, and 0 otherwise.
C8_EngagementCountsEngagedTurns ==
    [][LET sid == response'.session_id
           before == IF sid \in DOMAIN conversations THEN conversations[sid]
                     ELSE ConversationState(sid)
       IN  /\ \A s \in DOMAIN conversations \cap DOMAIN conversations' :
                 conversations'[s].engagement_level >= conversations[s].engagement_level
           /\ sid \in DOMAIN conversations' =>
                 LET after == conversations'[sid]
                 IN  /\ before.scam_detected =>
                            after.engagement_level = before.engagement_level + 1
                     /\ ~after.scam_detected =>
                            after.engagement_level = before.engagement_level]_vars

\* C9: the Intelligence of a session never holds two items of the same type and
\* value, also when the same artifact is sent again on a later turn.
C9_NoDuplicateIntelligence ==
    \A sid \in DOMAIN conversations :
        \A list \in DOMAIN conversations[sid].extracted_intelligence :
            LET items == conversations[sid].extracted_intelligence[list]
            IN  \A i, j \in DOMAIN items :
                    items[i].type = items[j].type /\ items[i].value = items[j].value => i = j

\* the turns a session has processed in state ENGAGED: those from the first turn
\* above 0.7 on (every request of the scenario holds one message and no history)
EngagedTurns(state) ==
    LET above == {i \in DOMAIN state.messages :
                     Exceeds(DetectedFor(state.messages[i].text).confidence, 7)}
    IN  IF above = {} THEN 0
        ELSE Len(state.messages) + 1 - (CHOOSE i \in above : \A j \in above : i <= j)

\* C10: with the threshold at 8, the final callback of a session is emitted exactly
\* once, on its 8th engaged turn and not before, and the session is absent from the
\* store once that turn is processed.
C10_CallbackOnEighthEngagedTurn ==
    /\ Len(callbacks) <= 1
    /\ \A sid \in DOMAIN conversations :
          /\ EngagedTurns(conversations[sid]) < 8
          /\ callbacks = <<>>
    /\ \A k \in DOMAIN callbacks : callbacks[k].payload.sessionId \notin DOMAIN conversations

\* the turns a session has processed whose classifier confidence is above 0.7 (the
\* inbound messages are those of the sender "scammer")
TurnsAbove(state) ==
    {i \in DOMAIN state.messages :
        /\ state.messages[i].sender = "scammer"
        /\ Exceeds(DetectedFor(state.messages[i].text).confidence, 7)}

\* C25: after any sequence of turns on a session, scam_detected is true if and only
\* if at least one processed turn had a classifier confidence strictly above 0.7; a
\* turn classified is_scam = true with a confidence of at most 0.7 does not move
\* the session from ACTIVE to ENGAGED.
C25_EngagedIffTurnAbove ==
    \A sid \in DOMAIN conversations :
        conversations[sid].scam_detected <=> TurnsAbove(conversations[sid]) # {}

\* C25's case: a session has processed a turn classified as a scam with a
\* confidence of at most 0.7, and is still ACTIVE
C25_ScamTurnLeavesActive ==
    \E sid \in DOMAIN conversations :
        /\ ~conversations[sid].scam_detected
        /\ \E i \in DOMAIN conversations[sid].messages :
              /\ conversations[sid].messages[i].sender = "scammer"
              /\ DetectedFor(conversations[sid].messages[i].text).is_scam

\* the classifier confidence of the turn stored as message i
TurnConfidence(state, i) == DetectedFor(state.messages[i].text).confidence

RECURSIVE CommonDivisor(_, _)
\* the greatest common divisor of two positive numbers
CommonDivisor(m, n) == IF n = 0 THEN m ELSE CommonDivisor(n, m % n)

\* confidence a is at most confidence b (the denominators are reduced by their
\* common divisor before the cross multiplication)
AtMost(a, b) ==
    LET g == CommonDivisor(a[2], b[2])
    IN  a[1] * (b[2] \div g) <= b[1] * (a[2] \div g)

\* the turns of a session from the latching turn on
TurnsSinceLatch(state) ==
    {i \in DOMAIN state.messages :
        /\ state.messages[i].sender = "scammer"
        /\ \E j \in TurnsAbove(state) : j <= i}

\* C26: once a session is ENGAGED, its scam_confidence after each turn equals the
\* maximum classifier confidence observed over the turns from the latching turn up
\* to the current one.
C26_ConfidenceIsMaxSinceLatch ==
    \A sid \in DOMAIN conversations :
        LET state == conversations[sid]
        IN  state.scam_detected =>
                /\ \A i \in TurnsSinceLatch(state) :
                      AtMost(TurnConfidence(state, i), state.scam_confidence)
                /\ \E i \in TurnsSinceLatch(state) :
                      /\ AtMost(TurnConfidence(state, i), state.scam_confidence)
                      /\ AtMost(state.scam_confidence, TurnConfidence(state, i))

\* C27: each processed turn extends the stored message history of its session by
\* exactly the one inbound message: the messages stored before remain an unchanged
\* prefix and the length grows by 1, whatever conversationHistory the request
\* carries.
C27_HistoryGrowsByInboundMessage ==
    [][LET sid == response'.session_id
           before == IF sid \in DOMAIN conversations THEN conversations[sid].messages
                     ELSE <<>>
       IN  sid \in DOMAIN conversations' =>
               /\ Len(conversations'[sid].messages) = Len(before) + 1
               /\ SubSeq(conversations'[sid].messages, 1, Len(before)) = before]_vars

\* C30: every turn processed while the session is ENGAGED completes: the call of
\* generate_response is accepted by the orchestrator, the request is answered with
\* status "success", and the turn adds 1 to engagement_level, so the threshold
\* check of the final callback is reached.
C30_EngagedTurnCompletes ==
    [][LET sid == response'.session_id
           before == IF sid \in DOMAIN conversations THEN conversations[sid]
                     ELSE ConversationState(sid)
       IN  sid \in DOMAIN conversations' /\ conversations'[sid].scam_detected =>
               /\ Binds(generate_response_parameters, generate_response_arguments)
               /\ response'.status = "success"
               /\ conversations'[sid].engagement_level = before.engagement_level + 1]_vars

(***************************************************************************)
(* Properties of the final callback.                                       *)
(***************************************************************************)
\* C11: when the delivery of the final callback fails (a status other than 200, or
\* an exception), the session is removed from the store, and no delivery is
\* attempted again for a session whose delivery has failed.
C11_FailedDeliveryEndsSession ==
    [][Len(callbacks') > Len(callbacks) =>
          LET attempt == callbacks'[Len(callbacks')]
              sid == attempt.payload.sessionId
          IN  /\ attempt.outcome # "200" => sid \notin DOMAIN conversations'
              /\ \A k \in DOMAIN callbacks :
                    callbacks[k].payload.sessionId = sid => callbacks[k].outcome = "200"]_vars

(***************************************************************************)
(* Properties of the conversation memory.                                  *)
(***************************************************************************)
\* the number of the last get_conversation call for an id, 0 if there is none
LastGet(log, conversation_id) ==
    LET gets == {k \in DOMAIN log :
                    log[k] = [op |-> "get_conversation", id |-> conversation_id]}
    IN  IF gets = {} THEN 0 ELSE CHOOSE k \in gets : \A j \in gets : j <= k

\* C12: after any sequence of get_conversation and update_turns calls the memory
\* holds at most max_size conversations; a get_conversation for a new id when the
\* memory is at capacity evicts exactly one conversation, the one whose last
\* get_conversation is the oldest, and retains all others unchanged.
C12_EvictsLeastRecentlyGot ==
    /\ [](Len(memory.memory) <= memory.max_size)
    /\ [][LET call == calls'[Len(calls')]
              before == MemoryIds(memory)
              after == MemoryIds(memory')
          IN  /\ Len(calls') = Len(calls) + 1
              /\ call.op = "get_conversation"
              /\ call.id \notin before
              /\ Len(memory.memory) = memory.max_size
              => /\ call.id \in after
                 /\ \E victim \in before :
                       /\ before \ after = {victim}
                       /\ \A other \in before : LastGet(calls, victim) <= LastGet(calls, other)
                 /\ \A other \in before \cap after :
                       MemoryEntry(memory', other) = MemoryEntry(memory, other)]_vars

\* C12's case: a conversation was evicted although update_turns was called for it
\* after the last get_conversation of a conversation that is retained
C12_EvictedDespiteLaterUpdate ==
    \E i, j, k, m \in DOMAIN calls :
        /\ i < j /\ j < k /\ k < m
        /\ calls[i].op = "get_conversation"
        /\ calls[j].op = "get_conversation" /\ calls[j].id # calls[i].id
        /\ calls[k] = [op |-> "update_turns", id |-> calls[i].id]
        /\ calls[m].op = "get_conversation" /\ calls[m].id \notin {calls[i].id, calls[j].id}
        /\ calls[i].id \notin MemoryIds(memory)
        /\ calls[j].id \in MemoryIds(memory)

(***************************************************************************)
(* Properties of the orchestrator.                                         *)
(***************************************************************************)
\* the call has returned
Responded == agent.response # NoResult

\* a bank-account, UPI or card item is present in the intelligence of the call
FinancialItemPresent ==
    \E key \in {"bank_accounts", "upi_ids", "card_details"} \cap DOMAIN agent.extracted_intelligence :
        agent.extracted_intelligence[key] # <<>>

\* C14: for every (turn_count, confidence, intelligence) and every outcome of the
\* random choices, generate_response returns a non-empty string of at most 500
\* characters.
C14_ResponseNonEmptyAtMost500 ==
    Responded => agent.response.length >= 1 /\ agent.response.length <= 500

\* C14's case: the longest response: a filler, a prompt for a missing item and an
\* urgency phrase are all appended
C14_EverythingAppended ==
    /\ Responded
    /\ Len(agent.response.parts) = 9
    /\ agent.response.length > 100

\* C18: for every turn_count >= 0 and intelligence, analyze_context computes
\* stage = min(turn_count // 2, 4), increased by 1 (capped at 4) exactly when a
\* bank-account, UPI or card item is present and turn_count > 1; the stage is in
\* 0..4 and never decreases as turn_count grows with the intelligence fixed.
C18_StageAsStated ==
    /\ [](Responded =>
            LET base == Min(agent.turn_count \div 2, 4)
            IN  /\ agent.context.stage \in 0..4
                /\ agent.context.stage =
                      IF FinancialItemPresent /\ agent.turn_count > 1
                      THEN Min(base + 1, 4) ELSE base)
    /\ [][agent.context # NoResult /\ agent'.context # NoResult
             /\ agent'.turn_count >= agent.turn_count
             /\ agent'.extracted_intelligence = agent.extracted_intelligence
          => agent'.context.stage >= agent.context.stage]_vars

\* C18's case: the increase is cut by the cap: stage 4 at a turn count whose
\* baseline is 3, a financial item being present
C18_IncreaseReachesCap ==
    /\ Responded
    /\ FinancialItemPresent
    /\ agent.turn_count \div 2 = 3
    /\ agent.context.stage = 4

\* the strategy C19 states for a stage, confidence > 0.7 and financial item present
StrategyAsStated(stage, high, financial) ==
    CASE stage = 0 -> "initial_engagement"
      [] stage = 1 -> "playing_dumb"
      [] stage = 2 -> IF high THEN "seeking_assurance" ELSE "playing_dumb"
      [] stage = 3 -> IF financial THEN "extraction_phase" ELSE "seeking_assurance"
      [] stage = 4 -> "delaying_tactics"

\* C19: the selected strategy is a function of (stage, confidence > 0.7, financial
\* item present): 0 gives initial_engagement, 1 playing_dumb, 2 seeking_assurance
\* if confidence > 0.7 else playing_dumb, 3 extraction_phase if a financial item is
\* present else seeking_assurance, 4 delaying_tactics; so two calls with the same
\* inputs select the same strategy.
C19_StrategyAsStated ==
    Responded =>
        agent.strategy = StrategyAsStated(agent.context.stage,
                                          Exceeds(agent.scam_confidence, 7),
                                          FinancialItemPresent)

\* C19's case: at stage 2 a confidence of exactly 0.7 is not high (playing_dumb),
\* and at stage 3 without a financial item the strategy is seeking_assurance
C19_BoundaryChoices ==
    /\ Responded
    /\ \/ /\ agent.context.stage = 2
          /\ agent.scam_confidence = <<7, 10>>
          /\ agent.strategy = "playing_dumb"
       \/ /\ agent.context.stage = 3
          /\ ~FinancialItemPresent
          /\ agent.strategy = "seeking_assurance"

\* C29: extraction_phase is selected only when a bank-account, UPI or card item is
\* present and turn_count is 4 or 5; at every other turn_count, and whenever no
\* financial item is present, it is never selected.
C29_ExtractionPhaseOnlyAtTurns4And5 ==
    Responded /\ agent.strategy = "extraction_phase"
        => FinancialItemPresent /\ agent.turn_count \in {4, 5}

\* C29's case: extraction_phase is selected at turn 5, a financial item being
\* present
C29_ExtractionPhaseAtTurn5 ==
    /\ Responded
    /\ FinancialItemPresent
    /\ agent.turn_count = 5
    /\ agent.strategy = "extraction_phase"

(***************************************************************************)
(* Properties of the /honeypot endpoint.                                   *)
(***************************************************************************)
\* the request the last response answers
LastRequest == requests[Len(requests)]

\* a request has been answered
Answered == requests # <<>> /\ response # NoResult

\* the groups of extracted intelligence of the response are all empty
NoIntelligence ==
    \A key \in DOMAIN response.extracted_intelligence :
        response.extracted_intelligence[key] = <<>>

\* C15: for every request body (valid JSON of any shape, plain text, empty,
\* malformed) and for any fault raised by the classifier, the extractor, the
\* orchestrator or the construction of the response, the /honeypot handler returns
\* a response with status "success" and a non-empty agent_reply.
C15_AlwaysSuccessWithReply ==
    Answered =>
        /\ response.status = "success"
        /\ response.agent_reply.length >= 1

\* C15's case: classifier, extractor, orchestrator and response construction all
\* fail on a malformed body, and the guaranteed response is returned
C15_GuaranteedAfterEveryFault ==
    /\ Answered
    /\ LastRequest.raw_body = BodyMalformed
    /\ {"classifier", "extractor", "orchestrator", "response"} \subseteq LastRequest.faults
    /\ "error_note" \in DOMAIN response
    /\ response.agent_reply = Literal(replies.guaranteed)

\* C16: when the classifier raises an exception while a request is processed, the
\* response carries is_scam = true with a confidence of about 0.85 (between 0.8 and
\* 0.9 here) and empty extracted intelligence, for every message text.
C16_ClassifierFaultGivesDefault ==
    Answered /\ "classifier" \in LastRequest.faults =>
        /\ response.scam_detected
        /\ response.engagement_metrics.scam_likelihood[1] * 10
               >= 8 * response.engagement_metrics.scam_likelihood[2]
        /\ response.engagement_metrics.scam_likelihood[1] * 10
               <= 9 * response.engagement_metrics.scam_likelihood[2]
        /\ NoIntelligence

\* the value is no text: absent, null, not a string, or blank
NoText(data, field) ==
    \/ ~HasKey(data, field)
    \/ Item(data, field).type # "str"
    \/ Strip(Item(data, field).text) = <<>>

\* the message text of the request is empty or missing: an empty or blank body, or
\* a JSON object with no text in a direct field nor in incoming_message
TextMissing(raw_request) ==
    IF raw_request.kind = "text" THEN Strip(raw_request.text) = <<>>
    ELSE /\ raw_request.data.type = "dict"
         /\ \A i \in DOMAIN direct_fields :
               \/ ~HasKey(raw_request.data, direct_fields[i])
               \/ Item(raw_request.data, direct_fields[i]).type \in {"str", "null"}
                    /\ NoText(raw_request.data, direct_fields[i])
         /\ \/ NoText(raw_request.data, "incoming_message")
               /\ (HasKey(raw_request.data, "incoming_message") =>
                      Item(raw_request.data, "incoming_message").type # "dict")
            \/ /\ HasKey(raw_request.data, "incoming_message")
               /\ Item(raw_request.data, "incoming_message").type = "dict"
               /\ NoText(Item(raw_request.data, "incoming_message"), "text")

\* C17: a request whose message text is empty or missing is processed as non-scam
\* with confidence 0, and the translation does not replace the empty text by any
\* other text before it is classified.
C17_MissingTextStaysEmpty ==
    Answered /\ LastRequest.faults = {} /\ TextMissing(LastRequest.raw_body) =>
        /\ LastRequest.elite_request.incoming_message.text = <<>>
        /\ ~response.scam_detected
        /\ response.engagement_metrics.scam_likelihood[1] = 0

\* the texts in which an extractor of a bank account, a UPI id or card details
\* finds an item
FinancialTexts ==
    {t \in HoneypotTexts :
        \E pattern_type \in {"bank_account", "upi_id", "card_details"} :
            TypeItems(t, pattern_type) # <<>>}

\* the requests before the last one that were for the same conversation
EarlierTurns ==
    {k \in 1..(Len(requests) - 1) :
        requests[k].elite_request.conversation_id
            = LastRequest.elite_request.conversation_id}

\* C28: on every scam turn the reply is generated from the intelligence accumulated
\* over all turns of the conversation so far: when the orchestrator is called on a
\* turn after one whose text held a financial item, the item counts as present
\* (has_financial_info) and advances the stage, also when the text of the turn
\* itself holds none.
C28_ReplyFromAccumulatedIntelligence ==
    /\ Answered
    /\ agent # NoResult
    /\ \E k \in EarlierTurns :
          /\ requests[k].elite_request.incoming_message.text \in FinancialTexts
          /\ requests[k].faults = {}
    => /\ agent.context.has_financial_info
       /\ agent.context.stage
             = AdjustedStage(Min(memory.memory[Len(memory.memory)].turns \div 2, 4))

(***************************************************************************)
(* Properties of concurrent requests.                                      *)
(***************************************************************************)
\* every request has returned or raised
AllDone == requests # <<>> /\ \A r \in DOMAIN requests : requests[r].pc = "done"

\* how often x is in the sequence s
TimesIn(s, x) == Cardinality({i \in DOMAIN s : s[i] = x})

\* the items the requests together extract for a list
ItemsExtracted(list) ==
    SumOver([r \in DOMAIN requests |->
                IF list \in DOMAIN ExtractedFor(requests[r].message.text)
                THEN Len(ExtractedFor(requests[r].message.text)[list]) ELSE 0],
            DOMAIN requests)

\* C13: concurrent requests for the same session id behave as if serialized: under
\* every interleaving of n such requests, once all are complete the message history
\* of the session holds every inbound message (as often as it was sent), and no
\* update of the intelligence is lost or duplicated: each list holds as many
\* items as the requests extracted for it.
C13_ConcurrentAsSerialized ==
    AllDone =>
        LET state == heap[store[Session]]
        IN  /\ Len(state.messages) = Len(requests)
            /\ \A r \in DOMAIN requests :
                  TimesIn(state.messages, requests[r].message)
                      = Cardinality({q \in DOMAIN requests :
                                        requests[q].message = requests[r].message})
            /\ \A list \in appended_types :
                  Len(state.extracted_intelligence[list]) = ItemsExtracted(list)
=============================================================================
